---- MODULE Spec2Model ----
(***************************************************************************)
(* tbm13_utils.encoding: the locked, change-detecting text store           *)
(* (BaseTextFile) and the unique-key store built on it (SerializableFile). *)
(*                                                                         *)
(* Two store instances, each in its own process, are open on one path.     *)
(* A third party (ExtWrite, ExtDelete) changes the path without taking the *)
(* lock.  Every file access of _read and _write is one step, so that the   *)
(* processes interleave between any two of them; waiting for the lock is   *)
(* the guard of the step that takes it.                                    *)
(*                                                                         *)
(* Filesystem time is a logical clock: every change of a file's bytes      *)
(* stamps it with a fresh st_mtime_ns.                                     *)
(*                                                                         *)
(* SpecCoop: the two instances.  Spec: the two instances, and _write may   *)
(* raise.  SpecExt: one instance, _write may raise, and the third party.   *)
(***************************************************************************)
EXTENDS Integers, Sequences, FiniteSets, TLC

\* ------------------------------------------------------------------ bounds
MaxClock == 4       \* changes of the file's bytes in one behaviour
MaxDepth == 2       \* nesting of modify scopes
MaxFail  == 1       \* I/O or serialization errors injected into _write
MaxRefs  == 4       \* record objects alive at one time
MaxHeld  == 2       \* record objects the caller holds at one time
MaxCalls == 4       \* calls of func in one call_retriable_func
MaxStrLen == 2      \* characters of the string of a StringSerializable
MaxValues == 2      \* values a StringSerializableFile holds
MaxUpdates == 2     \* updates applied to one Serializable
MaxWorkers == 2     \* workers of a session that starts
MaxWork == 3        \* elements of the work of a session or of a worker
MaxRuns == 2        \* calls of WorkerSession.run on one session

Inst == {1, 2}      \* the store instances (one per process)
Keys == {1, 2}      \* values of the key field
Vals == {0, 1}      \* values of the other field (its length as text)

\* ------------------------------------------------------------- the records
\* The records the callers store: the key field and one more field, which
\* is varied under the first key only.
Objs == {o \in [id : Keys, name : Vals] : o.id = 1 \/ o.name = 0}

\* One line of text of the file: <<id, name>> is the JSON of a record,
\* CommentLine a blank line or a line that starts with '#'.
CommentLine == <<0, 0>>
IsIgnored(line) == line[1] = 0

\* A dump that leaves the second field at its default
Encode_NoName(obj) == <<obj.id, 0>>

\* obj.model_dump_json()
Encode(obj) == <<obj.id, obj.name>>
\* value_type.model_validate_json(line)
Decode(line) == [id |-> line[1], name |-> line[2]]

\* _dic is an insertion-ordered dict: a sequence of <<key, obj>> pairs.
HasKey(dic, k) == \E n \in 1..Len(dic) : dic[n][1] = k
IndexOf(dic, k) == CHOOSE n \in 1..Len(dic) : dic[n][1] = k
Lookup(dic, k) == dic[IndexOf(dic, k)][2]
Without(dic, k) == SelectSeq(dic, LAMBDA e : e[1] # k)
KeyOf(obj) == obj.id

\* SerializableFile._serialize: one line per value, in dict order.
Serialize(dic) == [n \in 1..Len(dic) |-> Encode(dic[n][2])]

\* _deserialize without its duplicate-key test: every record line is kept
RECURSIVE DeserializeFrom_NoCheck(_, _, _)
DeserializeFrom_NoCheck(lines, n, dic) ==
    IF n > Len(lines) THEN [ok |-> TRUE, dic |-> dic]
    ELSE IF IsIgnored(lines[n]) THEN DeserializeFrom_NoCheck(lines, n + 1, dic)
    ELSE DeserializeFrom_NoCheck(lines, n + 1,
                                 Append(dic, <<KeyOf(Decode(lines[n])), Decode(lines[n])>>))

\* SerializableFile._deserialize, from the n-th line on, into dic.  The result
\* is the dict built so far and whether the duplicate-key error was raised.
RECURSIVE DeserializeFrom(_, _, _)
DeserializeFrom(lines, n, dic) ==
    IF n > Len(lines) THEN [ok |-> TRUE, dic |-> dic]
    ELSE IF IsIgnored(lines[n]) THEN DeserializeFrom(lines, n + 1, dic)
    ELSE LET obj == Decode(lines[n])
             key == KeyOf(obj)
         IN  IF HasKey(dic, key) THEN [ok |-> FALSE, dic |-> dic]
             ELSE DeserializeFrom(lines, n + 1, Append(dic, <<key, obj>>))
Deserialize(lines) == DeserializeFrom(lines, 1, <<>>)

\* st_size of a file that holds these lines, joined by '\n'.
LineLen(line) == IF IsIgnored(line) THEN 1 ELSE 2 + line[2]
RECURSIVE TextLen(_)
TextLen(lines) ==
    IF lines = <<>> THEN 0
    ELSE LineLen(Head(lines)) + (IF Len(lines) > 1 THEN 1 ELSE 0) + TextLen(Tail(lines))

\* The key -> field view of a dict, -1 where the key is not stored.
AsMap(dic) == [k \in Keys |-> IF HasKey(dic, k) THEN Lookup(dic, k).name ELSE -1]

\* ---------------------------------------------------------------- the state
VARIABLES
    file,        \* the inode at the path: [exists, content, mtime]
    clock,       \* filesystem time
    fails,       \* errors injected so far
    pc,          \* pc[i]: where instance i is in its current call
    ret,         \* ret[i]: where the running _read or _write returns to
    depth,       \* _modify_depth
    holds,       \* the counter of the instance's (re-entrant) FileLock
    cache,       \* _dic
    snap,        \* <<_last_mtime_ns, _last_size>>; mtime 0 is None
    wbuf,        \* text written to the open file object and not yet flushed
    fd,          \* the inode the open file object refers to
    touched,     \* history: keys mutated in the open outermost scope
    bodyRaised,  \* history: the body of the outermost scope raised and its exit is under way
    scopeWrites, \* history: times the file was opened for writing since the scope was entered
    unparsed,    \* history: reads that found modified_externally() true, minus calls of _deserialize
    clean        \* history: "yes" when the last read or write of i completed and nobody else changed the path since it began

\* The state of the stores taken one whole operation at a time
VARIABLES
    udic,        \* unique-key store: _dic of the instance
    udisk,       \* unique-key store: the lines of its file
    ulast,       \* history: the last call, its arguments and its outcome
    umap,        \* history: the abstract map key -> record the calls describe
    ufresh,      \* what a fresh instance opened on the file got: [ok, dic]
    mdic,        \* multi-key store: _dic of the instance
    mdisk,       \* multi-key store: the lines of its file
    mlast,       \* history: the last call, its arguments and its outcome
    mfresh       \* what a fresh instance opened on the file got: [ok, dic]

\* The records as objects
VARIABLES
    icls,        \* the class of the store: "none" before it is constructed
    icell,       \* the record objects: reference -> [id, some_list]
    ibox,        \* the list objects the records refer to through some_list
    idic,        \* _dic of the store: key -> the references it holds
    iheld,       \* the references the caller holds, and how it came by each
    ilast        \* history: the last call

\* call_retriable_func
VARIABLES
    fpc,                  \* where the call stands: "idle", "call", "caught", "done"
    max_retries,          \* the argument
    wait_multiplier,      \* the argument
    max_wait,             \* the argument
    wait_between_retries, \* the argument, which the function reassigns
    retries_count,        \* the local variable
    result,               \* what the call returned: "none" before it returns
    calls,                \* history: calls of func
    sleeps,               \* history: the arguments of time.sleep, in order
    wait0                 \* history: wait_between_retries as it was passed

\* StringSerializableFile
VARIABLES
    svalues,     \* _values of the instance
    stext,       \* the characters of its file
    sfresh,      \* _values of a fresh instance opened on a file
    slast        \* history: the last call and the text it wrote or read

\* Serializable
VARIABLES
    robj,        \* the record
    rbase,       \* history: the record as it was constructed or loaded
    rapplied,    \* history: the updates applied to it since, in order
    rlast        \* history: the last operation, its arguments and its result

\* BaseWorker, WorkerSession
VARIABLES
    status,               \* status[i]: _status of worker i
    work_len,             \* work_len[i]: len(_work) of worker i
    work_index,           \* work_index[i]: _work_index of worker i
    wpc,                  \* wpc[i]: where worker i and its thread stand
    wstart,               \* history: start_index as it was passed to prepare
    wlog,                 \* history: the elements worker i gave to _do_work, with the outcome
    apc,                  \* where the caller of abort() stands
    asignal,              \* history: what the caller of abort() saw and when it wrote
    spc,                  \* where WorkerSession.run stands
    work,                 \* len(work) of the run
    workers_checkpoints,  \* the field of the session
    workers_num,          \* the local variable of run
    sw,                   \* the worker the loop of run is at
    global_status,        \* the local variable of run: NoStatus is None
    sseen,                \* history: the statuses the last whole pass of the loop read
    sdone,                \* history: the elements of each share fully processed, in any run
    sruns                 \* history: the calls of run, each with the checkpoints it began with

\* settings
VARIABLES
    config,      \* the characters of settings_file
    clast        \* history: the last call, its arguments and the file before it

storeVars == <<udic, udisk, ulast, umap, ufresh>>
multiVars == <<mdic, mdisk, mlast, mfresh>>
isoVars == <<icls, icell, ibox, idic, iheld, ilast>>
retryVars == <<fpc, max_retries, wait_multiplier, max_wait, wait_between_retries,
               retries_count, result, calls, sleeps, wait0>>
strVars == <<svalues, stext, sfresh, slast>>
recVars == <<robj, rbase, rapplied, rlast>>
workVars == <<status, work_len, work_index, wpc, wstart, wlog, apc, asignal, spc, work,
              workers_checkpoints, workers_num, sw, global_status, sseen, sdone, sruns>>
setVars == <<config, clast>>
lateVars == <<workVars, setVars>>
restVars == <<retryVars, strVars, recVars, lateVars>>
pureVars == <<storeVars, multiVars, isoVars, restVars>>

fileVars == <<file, clock, fails, pc, ret, depth, holds, cache, snap, wbuf, fd,
              touched, bodyRaised, scopeWrites, unparsed, clean>>
vars == <<fileVars, pureVars>>

\* WorkerStatus
ABORT_FINISHED == 0 - 3
ABORT_ERROR == 0 - 2
ABORT_USER == 0 - 1
NOT_STARTED == 0
WORKING == 1
FINISHED_ALL_WORK == 2
\* global_status = None
NoStatus == 3

\* The workers of a session: worker_type(i) for i in range(workers_num)
Workers == 0..(MaxWorkers - 1)
\* abort() not called yet
NoSignal == [saw |-> NoStatus, wrote |-> FALSE, at |-> 0, pc |-> "none"]

\* No argument, the empty object
NoArgs == [f \in {} |-> 0]
\* No record yet
NoRec == [cls |-> "none", val |-> NoArgs, set |-> {}]
\* Nothing done to the record yet
NoRecOp ==
    [op |-> "none", ok |-> TRUE, self |-> NoRec, other |-> NoRec, excluded |-> {},
     line |-> NoArgs]

\* No record: the value of an argument a call does not take, of a result a
\* call does not give, and of a key the abstract map does not hold
NoObj == [id |-> 0, name |-> 0]
\* The history before the first call
NoCall == [op |-> "none", obj |-> NoObj, old |-> NoObj, key |-> 0,
           ok |-> TRUE, ret |-> NoObj, list |-> <<>>, n |-> 0,
           expOk |-> TRUE, expRet |-> NoObj]

\* The references of the objects, no object, and the history before the first call
Refs == 1..MaxRefs
NoCell == [id |-> 0, some_list |-> 0]
NoIso == [op |-> "none", key |-> 0, ok |-> TRUE, refs |-> <<>>]
NoFile == [exists |-> FALSE, content |-> <<>>, mtime |-> 0]
NoSnap == <<0, 0>>
NoFd   == [open |-> FALSE, live |-> FALSE, mtime |-> 0, size |-> 0]
LiveFd == [open |-> TRUE, live |-> TRUE, mtime |-> 0, size |-> 0]

\* os.stat(path) / os.fstat on a descriptor of the path's inode
Meta(f) == <<f.mtime, TextLen(f.content)>>
\* os.fstat(file.fileno()): the inode the descriptor was opened on, also when
\* the path was unlinked or replaced in the meantime.
FdMeta(i) == IF fd[i].live THEN Meta(file) ELSE <<fd[i].mtime, fd[i].size>>

\* modified_externally() without the comparison of the modification times
ModifiedExternally_SizeOnly(i) ==
    IF snap[i][1] = 0
    THEN file.exists
    ELSE IF ~file.exists
         THEN TRUE
         ELSE snap[i][2] # Meta(file)[2]

\* BaseTextFile.modified_externally
ModifiedExternally(i) ==
    IF snap[i][1] = 0
    THEN file.exists
    ELSE IF ~file.exists
         THEN TRUE
         ELSE snap[i][2] # Meta(file)[2] \/ snap[i][1] # Meta(file)[1]

\* ------------------------------------------------------- the store's methods
\* add that raises only for a record equal to the stored one and otherwise
\* overwrites
AddOp_EqualOnly(dic, obj) ==
    IF HasKey(dic, KeyOf(obj)) /\ Lookup(dic, KeyOf(obj)) = obj
    THEN [ok |-> FALSE, dic |-> dic]
    ELSE IF HasKey(dic, KeyOf(obj))
    THEN [ok |-> TRUE, dic |-> [dic EXCEPT ![IndexOf(dic, KeyOf(obj))] = <<KeyOf(obj), obj>>]]
    ELSE [ok |-> TRUE, dic |-> Append(dic, <<KeyOf(obj), obj>>)]

\* SerializableFile.add
AddOp(dic, obj) ==
    IF HasKey(dic, KeyOf(obj)) THEN [ok |-> FALSE, dic |-> dic]
    ELSE [ok |-> TRUE, dic |-> Append(dic, <<KeyOf(obj), obj>>)]

\* SerializableFile.set
SetOp(dic, obj) ==
    IF HasKey(dic, KeyOf(obj))
    THEN [ok |-> TRUE, dic |-> [dic EXCEPT ![IndexOf(dic, KeyOf(obj))] = <<KeyOf(obj), obj>>]]
    ELSE [ok |-> TRUE, dic |-> Append(dic, <<KeyOf(obj), obj>>)]

\* replace without the comparison of old with the stored record
ReplaceOp_AnyOld(dic, old, new) ==
    IF ~HasKey(dic, KeyOf(old)) THEN [ok |-> FALSE, dic |-> dic]
    ELSE IF KeyOf(old) # KeyOf(new) THEN [ok |-> FALSE, dic |-> dic]
    ELSE [ok |-> TRUE, dic |-> [dic EXCEPT ![IndexOf(dic, KeyOf(old))] = <<KeyOf(old), new>>]]

\* SerializableFile.replace
ReplaceOp(dic, old, new) ==
    IF ~HasKey(dic, KeyOf(old)) THEN [ok |-> FALSE, dic |-> dic]
    ELSE IF KeyOf(old) # KeyOf(new) THEN [ok |-> FALSE, dic |-> dic]
    ELSE IF old # Lookup(dic, KeyOf(old)) THEN [ok |-> FALSE, dic |-> dic]
    ELSE [ok |-> TRUE, dic |-> [dic EXCEPT ![IndexOf(dic, KeyOf(old))] = <<KeyOf(old), new>>]]

\* pop that returns the record and leaves it stored
PopOp_Keeps(dic, key) ==
    IF ~HasKey(dic, key) THEN [ok |-> FALSE, dic |-> dic]
    ELSE [ok |-> TRUE, dic |-> dic]

\* SerializableFile.pop
PopOp(dic, key) ==
    IF ~HasKey(dic, key) THEN [ok |-> FALSE, dic |-> dic]
    ELSE [ok |-> TRUE, dic |-> Without(dic, key)]

\* ------------------------------------------------------------------ the lock
\* A lock that excludes nobody
CanAcquire_Always(i) == TRUE

\* filelock.FileLock(path + '.lock'): one process holds it at a time; the
\* holder's acquire only counts up.
CanAcquire(i) == \A j \in Inst \ {i} : holds[j] = 0
Acquire(i) == holds' = [holds EXCEPT ![i] = @ + 1]
Release(i) == holds' = [holds EXCEPT ![i] = @ - 1]

\* history: a change of the path made by a (0: the third party) is a change
\* somebody else made for every other instance
ChangedBy(a, own) == [j \in Inst |-> IF j = a THEN own ELSE "no"]

\* history of the settings: no call yet
NoSettingCall ==
    [op |-> "none", key |-> <<>>, type |-> "NoneType", value |-> <<>>,
     before |-> <<>>, ok |-> TRUE]

Init ==
    /\ file = NoFile
    /\ clock = 0
    /\ fails = 0
    /\ pc = [i \in Inst |-> "idle"]
    /\ ret = [i \in Inst |-> "idle"]
    /\ depth = [i \in Inst |-> 0]
    /\ holds = [i \in Inst |-> 0]
    /\ cache = [i \in Inst |-> <<>>]
    /\ snap = [i \in Inst |-> NoSnap]
    /\ wbuf = [i \in Inst |-> <<>>]
    /\ fd = [i \in Inst |-> NoFd]
    /\ touched = [i \in Inst |-> {}]
    /\ bodyRaised = [i \in Inst |-> FALSE]
    /\ scopeWrites = [i \in Inst |-> 0]
    /\ unparsed = [i \in Inst |-> 0]
    /\ clean = [i \in Inst |-> "yes"]
    /\ udic = <<>>
    /\ udisk = <<>>
    /\ ulast = NoCall
    /\ umap = [k \in Keys |-> NoObj]
    /\ ufresh = [ok |-> TRUE, dic |-> <<>>]
    /\ mdic = <<>>
    /\ mdisk = <<>>
    /\ mlast = NoCall
    /\ mfresh = [ok |-> TRUE, dic |-> <<>>]
    /\ icls = "none"
    /\ icell = [r \in Refs |-> NoCell]
    /\ ibox = [b \in Refs |-> 0]
    /\ idic = [k \in Keys |-> <<>>]
    /\ iheld = [r \in Refs |-> "none"]
    /\ ilast = NoIso
    /\ fpc = "idle"
    /\ max_retries = 0
    /\ wait_multiplier = 1
    /\ max_wait = 0
    /\ wait_between_retries = 0
    /\ retries_count = 0
    /\ result = "none"
    /\ calls = 0
    /\ sleeps = <<>>
    /\ wait0 = 0
    /\ svalues = {}
    /\ stext = <<>>
    /\ sfresh = {}
    /\ slast = [op |-> "none", text |-> <<>>]
    /\ robj = NoRec
    /\ rbase = NoRec
    /\ rapplied = <<>>
    /\ rlast = NoRecOp
    /\ status = [i \in Workers |-> NOT_STARTED]
    /\ work_len = [i \in Workers |-> 0]
    /\ work_index = [i \in Workers |-> 0]
    /\ wpc = [i \in Workers |-> "new"]
    /\ wstart = [i \in Workers |-> 0]
    /\ wlog = [i \in Workers |-> <<>>]
    /\ apc = "idle"
    /\ asignal = NoSignal
    /\ spc = "idle"
    /\ work = 0
    /\ workers_checkpoints = <<>>
    /\ workers_num = 0
    /\ sw = 0
    /\ global_status = NoStatus
    /\ sseen = <<>>
    /\ sdone = [i \in Workers |-> {}]
    /\ sruns = <<>>
    /\ config = <<>>
    /\ clast = NoSettingCall

\* --------------------------------------------------------- BaseTextFile._read
\* Where a _read or _write that returns normally continues.
Continue(i) == IF ret[i] = "m_entry" THEN "body" ELSE ret[i]

\* Where the caller of the store is when _read or _write raises: an exception
\* leaves modify() without running the rest of it.
Raise(i) == IF ret[i] \in {"m_entry", "m_release"} THEN "idle" ELSE ret[i]

\* The running _read or _write ends and i goes on at to
Return(i, to) ==
    /\ pc' = [pc EXCEPT ![i] = to]
    /\ ret' = [ret EXCEPT ![i] = "idle"]

\* "if self._modify_depth > 0: return", d the depth at the call
ReadSkipped(d) == d > 0

\* _read is called from from, at depth d and with n levels of the lock held:
\* the depth test, then "with self._lock:", which waits for the lock
BeginRead(i, d, n, from) ==
    /\ ret' = [ret EXCEPT ![i] = from]
    /\ IF ReadSkipped(d)
       THEN /\ pc' = [pc EXCEPT ![i] = "r_skip"]
            /\ holds' = [holds EXCEPT ![i] = n]
       ELSE /\ CanAcquire(i)
            /\ holds' = [holds EXCEPT ![i] = n + 1]
            /\ pc' = [pc EXCEPT ![i] = "r_check"]

\* A read of the store (get, contains, __len__, keys, values, items): it calls
\* _read() and answers from _dic.
ReadOp(i) ==
    /\ pc[i] \in {"idle", "body"}
    /\ BeginRead(i, depth[i], holds[i], pc[i])
    /\ UNCHANGED <<file, clock, fails, depth, cache, snap, wbuf, fd,
                   touched, bodyRaised, scopeWrites, unparsed, clean>>
    /\ UNCHANGED pureVars

\* _read returns at its depth test
RSkip(i) ==
    /\ pc[i] = "r_skip"
    /\ Return(i, Continue(i))
    /\ UNCHANGED <<file, clock, fails, depth, holds, cache, snap, wbuf, fd,
                   touched, bodyRaised, scopeWrites, unparsed, clean>>
    /\ UNCHANGED pureVars

\* _read: "if not self.modified_externally(): return", and the branch of a
\* file that does not exist
RCheck(i) ==
    /\ pc[i] = "r_check"
    /\ IF ~ModifiedExternally(i)
       THEN /\ Release(i)
            /\ Return(i, Continue(i))
            /\ UNCHANGED <<cache, snap, unparsed, clean>>
       ELSE IF ~file.exists
            THEN /\ cache' = [cache EXCEPT ![i] = Deserialize(<<>>).dic]
                 /\ unparsed' = [unparsed EXCEPT ![i] = @ + 1 - 1]
                 /\ snap' = [snap EXCEPT ![i] = NoSnap]
                 /\ clean' = [clean EXCEPT ![i] = "yes"]
                 /\ Release(i)
                 /\ Return(i, Continue(i))
            ELSE /\ unparsed' = [unparsed EXCEPT ![i] = @ + 1]
                 /\ clean' = [clean EXCEPT ![i] = "pending"]
                 /\ pc' = [pc EXCEPT ![i] = "r_open"]
                 /\ UNCHANGED <<cache, snap, holds, ret>>
    /\ UNCHANGED <<file, clock, fails, depth, wbuf, fd, touched, bodyRaised, scopeWrites>>
    /\ UNCHANGED pureVars

\* _read: open(path, 'r') and _deserialize(file.readlines()); either may raise
ROpen(i) ==
    /\ pc[i] = "r_open"
    /\ IF ~file.exists
       THEN /\ Release(i)
            /\ Return(i, Raise(i))
            /\ clean' = [clean EXCEPT ![i] = "no"]
            /\ UNCHANGED <<cache, unparsed, fd>>
       ELSE /\ cache' = [cache EXCEPT ![i] = Deserialize(file.content).dic]
            /\ unparsed' = [unparsed EXCEPT ![i] = @ - 1]
            /\ IF Deserialize(file.content).ok
               THEN /\ fd' = [fd EXCEPT ![i] = LiveFd]
                    /\ pc' = [pc EXCEPT ![i] = "r_stat"]
                    /\ UNCHANGED <<holds, clean, ret>>
               ELSE /\ Release(i)
                    /\ Return(i, Raise(i))
                    /\ clean' = [clean EXCEPT ![i] = "no"]
                    /\ UNCHANGED fd
    /\ UNCHANGED <<file, clock, fails, depth, snap, wbuf, touched, bodyRaised, scopeWrites>>
    /\ UNCHANGED pureVars

\* _read without the two assignments of the snapshot
RStat_NoSnap(i) ==
    /\ pc[i] = "r_stat"
    /\ fd' = [fd EXCEPT ![i] = NoFd]
    /\ clean' = [clean EXCEPT ![i] = IF @ = "pending" THEN "yes" ELSE @]
    /\ Release(i)
    /\ Return(i, Continue(i))
    /\ UNCHANGED <<file, clock, fails, depth, cache, snap, wbuf,
                   touched, bodyRaised, scopeWrites, unparsed>>
    /\ UNCHANGED pureVars

\* _read: os.fstat, the snapshot, and the end of both with blocks
RStat(i) ==
    /\ pc[i] = "r_stat"
    /\ snap' = [snap EXCEPT ![i] = FdMeta(i)]
    /\ fd' = [fd EXCEPT ![i] = NoFd]
    /\ clean' = [clean EXCEPT ![i] = IF @ = "pending" THEN "yes" ELSE @]
    /\ Release(i)
    /\ Return(i, Continue(i))
    /\ UNCHANGED <<file, clock, fails, depth, cache, wbuf,
                   touched, bodyRaised, scopeWrites, unparsed>>
    /\ UNCHANGED pureVars

\* -------------------------------------------------------- BaseTextFile._write
\* _write without its depth test
WriteSkipped_Never(d) == FALSE

\* "if self._modify_depth > 0: return", d the depth at the call
WriteSkipped(d) == d > 0

\* _write is called from from at depth d: the depth test, then
\* "with self._lock:"
BeginWrite(i, d, from) ==
    /\ ret' = [ret EXCEPT ![i] = from]
    /\ IF WriteSkipped(d)
       THEN /\ pc' = [pc EXCEPT ![i] = "w_skip"]
            /\ UNCHANGED holds
       ELSE /\ CanAcquire(i)
            /\ Acquire(i)
            /\ pc' = [pc EXCEPT ![i] = "w_open"]

\* An explicit _write() inside a modify scope
WriteCall(i) ==
    /\ pc[i] = "body"
    /\ BeginWrite(i, depth[i], "body")
    /\ UNCHANGED <<file, clock, fails, depth, cache, snap, wbuf, fd,
                   touched, bodyRaised, scopeWrites, unparsed, clean>>
    /\ UNCHANGED pureVars

\* _write returns at its depth test
WSkip(i) ==
    /\ pc[i] = "w_skip"
    /\ Return(i, Continue(i))
    /\ UNCHANGED <<file, clock, fails, depth, holds, cache, snap, wbuf, fd,
                   touched, bodyRaised, scopeWrites, unparsed, clean>>
    /\ UNCHANGED pureVars

\* The buffered text of i reaches the inode its descriptor is open on: the
\* path's file, or the unlinked inode when the path was deleted meanwhile.
\* Writing no text changes nothing.  closing: the descriptor is closed after.
\* own: the history value of i after the step.
FlushBuffer(i, closing, own) ==
    LET text == wbuf[i]
        after == IF text # <<>> /\ ~fd[i].live
                 THEN [fd[i] EXCEPT !.mtime = clock + 1, !.size = TextLen(text)]
                 ELSE fd[i]
    IN  /\ fd' = [fd EXCEPT ![i] = IF closing THEN NoFd ELSE after]
        /\ wbuf' = [wbuf EXCEPT ![i] = <<>>]
        /\ IF text = <<>>
           THEN /\ clean' = [clean EXCEPT ![i] = own]
                /\ UNCHANGED <<file, clock>>
           ELSE /\ clock < MaxClock
                /\ clock' = clock + 1
                /\ IF fd[i].live
                   THEN /\ file' = [file EXCEPT !.content = text, !.mtime = clock + 1]
                        /\ clean' = ChangedBy(i, own)
                   ELSE /\ clean' = [clean EXCEPT ![i] = own]
                        /\ UNCHANGED file

\* open(path, 'w') creates the file or truncates it
Truncate(i) ==
    /\ clock < MaxClock
    /\ clock' = clock + 1
    /\ file' = [exists |-> TRUE, content |-> <<>>, mtime |-> clock + 1]
    /\ scopeWrites' = [scopeWrites EXCEPT ![i] = @ + 1]

\* _write: open(path, 'w') and file.write(self._serialize()); the text stays
\* in the file object's buffer
WOpen(i) ==
    /\ pc[i] = "w_open"
    /\ Truncate(i)
    /\ fd' = [fd EXCEPT ![i] = LiveFd]
    /\ wbuf' = [wbuf EXCEPT ![i] = Serialize(cache[i])]
    /\ clean' = ChangedBy(i, "pending")
    /\ pc' = [pc EXCEPT ![i] = "w_flush"]
    /\ UNCHANGED <<fails, ret, depth, holds, cache, snap, touched, bodyRaised, unparsed>>
    /\ UNCHANGED pureVars

\* _write: open(path, 'w') raises (the file is read-only, the disk is gone).
\* The with block gives back its own level of the lock on the way out.
WOpenFail(i) ==
    /\ pc[i] = "w_open"
    /\ fails < MaxFail
    /\ fails' = fails + 1
    /\ Release(i)
    /\ Return(i, Raise(i))
    /\ UNCHANGED <<file, clock, depth, cache, snap, wbuf, fd,
                   touched, bodyRaised, scopeWrites, unparsed, clean>>
    /\ UNCHANGED pureVars

\* _write: the file is opened and self._serialize() raises; both with blocks
\* end and the file stays truncated
WSerFail(i) ==
    /\ pc[i] = "w_open"
    /\ fails < MaxFail
    /\ fails' = fails + 1
    /\ Truncate(i)
    /\ clean' = ChangedBy(i, "no")
    /\ Release(i)
    /\ Return(i, Raise(i))
    /\ UNCHANGED <<depth, cache, snap, wbuf, fd, touched, bodyRaised, unparsed>>
    /\ UNCHANGED pureVars

\* _write without flush and fsync: the text is still buffered when the
\* snapshot is taken
WFlush_Skip(i) ==
    /\ pc[i] = "w_flush"
    /\ pc' = [pc EXCEPT ![i] = "w_stat"]
    /\ UNCHANGED <<file, clock, fails, ret, depth, holds, cache, snap, wbuf, fd,
                   touched, bodyRaised, scopeWrites, unparsed, clean>>
    /\ UNCHANGED pureVars

\* _write: file.flush(); os.fsync(file.fileno())
WFlush(i) ==
    /\ pc[i] = "w_flush"
    /\ FlushBuffer(i, FALSE, clean[i])
    /\ pc' = [pc EXCEPT ![i] = "w_stat"]
    /\ UNCHANGED <<fails, ret, depth, holds, cache, snap,
                   touched, bodyRaised, scopeWrites, unparsed>>
    /\ UNCHANGED pureVars

\* _write: os.fstat and the snapshot, then the end of both with blocks;
\* closing the file object flushes what is still buffered
WStat(i) ==
    /\ pc[i] = "w_stat"
    /\ snap' = [snap EXCEPT ![i] = FdMeta(i)]
    /\ FlushBuffer(i, TRUE, IF clean[i] = "pending" THEN "yes" ELSE clean[i])
    /\ Release(i)
    /\ Return(i, Continue(i))
    /\ UNCHANGED <<fails, depth, cache, touched, bodyRaised, scopeWrites, unparsed>>
    /\ UNCHANGED pureVars

\* -------------------------------------------------------- BaseTextFile.modify
\* modify() up to the yield: "self._modify_depth += 1" and, outermost,
\* "self._lock.acquire()" and the call of _read().  A mutating method of the
\* store is a modify scope around its body, so it enters here too.
MEnter(i) ==
    /\ pc[i] \in {"idle", "body"}
    /\ depth[i] < MaxDepth
    /\ depth' = [depth EXCEPT ![i] = @ + 1]
    /\ IF depth[i] + 1 = 1
       THEN /\ CanAcquire(i)
            /\ BeginRead(i, depth[i] + 1, holds[i] + 1, "m_entry")
            /\ touched' = [touched EXCEPT ![i] = {}]
            /\ bodyRaised' = [bodyRaised EXCEPT ![i] = FALSE]
            /\ scopeWrites' = [scopeWrites EXCEPT ![i] = 0]
       ELSE UNCHANGED <<pc, ret, holds, touched, bodyRaised, scopeWrites>>
    /\ UNCHANGED <<file, clock, fails, cache, snap, wbuf, fd, unparsed, clean>>
    /\ UNCHANGED pureVars

\* modify() taken one statement at a time.  MCall: "self._modify_depth += 1"
\* of the outermost scope; the instance then waits in "self._lock.acquire()".
MCall(i) ==
    /\ pc[i] = "idle"
    /\ depth[i] = 0
    /\ depth' = [depth EXCEPT ![i] = 1]
    /\ pc' = [pc EXCEPT ![i] = "m_wait"]
    /\ UNCHANGED <<file, clock, fails, ret, holds, cache, snap, wbuf, fd,
                   touched, bodyRaised, scopeWrites, unparsed, clean>>
    /\ UNCHANGED pureVars

\* modify(): "self._lock.acquire()" returns once no other process holds the
\* lock, and _read() is called
MAcquire(i) ==
    /\ pc[i] = "m_wait"
    /\ CanAcquire(i)
    /\ BeginRead(i, depth[i], holds[i] + 1, "m_entry")
    /\ touched' = [touched EXCEPT ![i] = {}]
    /\ bodyRaised' = [bodyRaised EXCEPT ![i] = FALSE]
    /\ scopeWrites' = [scopeWrites EXCEPT ![i] = 0]
    /\ UNCHANGED <<file, clock, fails, depth, cache, snap, wbuf, fd,
                   unparsed, clean>>
    /\ UNCHANGED pureVars

\* modify(): the finally block, up to the call of _write()
Finally(i) ==
    /\ depth' = [depth EXCEPT ![i] = @ - 1]
    /\ IF depth[i] - 1 = 0
       THEN BeginWrite(i, depth[i] - 1, "m_release")
       ELSE UNCHANGED <<pc, ret, holds>>

\* The body of a scope ends normally
MExit(i) ==
    /\ pc[i] = "body"
    /\ Finally(i)
    /\ UNCHANGED <<file, clock, fails, cache, snap, wbuf, fd,
                   touched, bodyRaised, scopeWrites, unparsed, clean>>
    /\ UNCHANGED pureVars

\* modify(): "self._lock.release()" after _write() returned
MRelease(i) ==
    /\ pc[i] = "m_release"
    /\ Release(i)
    /\ pc' = [pc EXCEPT ![i] = "idle"]
    /\ touched' = [touched EXCEPT ![i] = {}]
    /\ bodyRaised' = [bodyRaised EXCEPT ![i] = FALSE]
    /\ scopeWrites' = [scopeWrites EXCEPT ![i] = 0]
    /\ UNCHANGED <<file, clock, fails, ret, depth, cache, snap, wbuf, fd,
                   unparsed, clean>>
    /\ UNCHANGED pureVars

\* The body of a mutating method that succeeds: _dic becomes res.dic
Mutated(i, res, key) ==
    /\ pc[i] = "body"
    /\ res.ok
    /\ cache' = [cache EXCEPT ![i] = res.dic]
    /\ touched' = [touched EXCEPT ![i] = @ \cup {key}]
    /\ UNCHANGED <<file, clock, fails, pc, ret, depth, holds, snap, wbuf, fd,
                   bodyRaised, scopeWrites, unparsed, clean>>
    /\ UNCHANGED pureVars

\* The body of a mutating method that raises: its finally block runs
Raised(i, res) ==
    /\ pc[i] = "body"
    /\ ~res.ok
    /\ Finally(i)
    /\ bodyRaised' = [bodyRaised EXCEPT ![i] = (depth[i] = 1)]
    /\ UNCHANGED <<file, clock, fails, cache, snap, wbuf, fd,
                   touched, scopeWrites, unparsed, clean>>
    /\ UNCHANGED pureVars

Add(i) == \E obj \in Objs : Mutated(i, AddOp(cache[i], obj), KeyOf(obj))
AddRaises(i) == \E obj \in Objs : Raised(i, AddOp(cache[i], obj))
Set(i) == \E obj \in Objs : Mutated(i, SetOp(cache[i], obj), KeyOf(obj))
Replace(i) ==
    \E old, new \in Objs : Mutated(i, ReplaceOp(cache[i], old, new), KeyOf(new))
ReplaceRaises(i) == \E old, new \in Objs : Raised(i, ReplaceOp(cache[i], old, new))
Pop(i) == \E key \in Keys : Mutated(i, PopOp(cache[i], key), key)
PopRaises(i) == \E key \in Keys : Raised(i, PopOp(cache[i], key))

\* ------------------------------------------------- changes from outside
\* What a third party writes: nothing, a comment and a record, two records
ExtContents ==
    { <<>>,
      <<CommentLine, <<1, 1>>>>,
      <<<<2, 0>>, <<1, 0>>>> }

\* A process that does not take the lock rewrites or creates the file
ExtWrite ==
    \E text \in ExtContents :
        /\ clock < MaxClock
        /\ clock' = clock + 1
        /\ file' = [exists |-> TRUE, content |-> text, mtime |-> clock + 1]
        /\ clean' = ChangedBy(0, "no")
        /\ UNCHANGED <<fails, pc, ret, depth, holds, cache, snap, wbuf, fd,
                       touched, bodyRaised, scopeWrites, unparsed>>
        /\ UNCHANGED pureVars

\* A process that does not take the lock deletes the file; descriptors open
\* on it keep its inode
ExtDelete ==
    /\ file.exists
    /\ file' = NoFile
    /\ fd' = [i \in Inst |-> IF fd[i].live
                            THEN [fd[i] EXCEPT !.live = FALSE, !.mtime = file.mtime,
                                               !.size = TextLen(file.content)]
                            ELSE fd[i]]
    /\ clean' = ChangedBy(0, "no")
    /\ UNCHANGED <<clock, fails, pc, ret, depth, holds, cache, snap, wbuf,
                   touched, bodyRaised, scopeWrites, unparsed>>
    /\ UNCHANGED pureVars

\* ------------------------------------------ the unique-key store, call by call
\* SerializableFile.get: the record under key, or default when one is given
\* and the key is not stored; without a default a missing key is a KeyError
GetOp(dic, key, hasDefault, default) ==
    IF HasKey(dic, key) THEN [ok |-> TRUE, ret |-> Lookup(dic, key)]
    ELSE IF hasDefault THEN [ok |-> TRUE, ret |-> default]
    ELSE [ok |-> FALSE, ret |-> NoObj]

\* SerializableFile.contains
ContainsOp(dic, key) == HasKey(dic, key)

\* SerializableFile.__len__
LenOp(dic) == Len(dic)

\* What SerializableFile.pop returns: self._dic.pop(key)
PopRet(dic, key) == IF HasKey(dic, key) THEN Lookup(dic, key) ELSE NoObj

\* A mutating call as a whole: the scope is entered, the body gives res, and
\* the exit of the scope writes the file, also when the body raised
UMutate(res) ==
    /\ udic' = res.dic
    /\ udisk' = Serialize(res.dic)
    /\ UNCHANGED ufresh

\* add(obj)
UAdd ==
    \E obj \in Objs :
        LET res == AddOp(udic, obj)
            free == umap[obj.id] = NoObj
        IN  /\ UMutate(res)
            /\ ulast' = [NoCall EXCEPT !.op = "add", !.obj = obj, !.key = KeyOf(obj),
                                       !.ok = res.ok, !.expOk = free]
            /\ umap' = IF free THEN [umap EXCEPT ![obj.id] = obj] ELSE umap
            /\ UNCHANGED <<fileVars, multiVars, isoVars, restVars>>

\* set(obj)
USet ==
    \E obj \in Objs :
        LET res == SetOp(udic, obj)
        IN  /\ UMutate(res)
            /\ ulast' = [NoCall EXCEPT !.op = "set", !.obj = obj, !.key = KeyOf(obj),
                                       !.ok = res.ok]
            /\ umap' = [umap EXCEPT ![obj.id] = obj]
            /\ UNCHANGED <<fileVars, multiVars, isoVars, restVars>>

\* replace(old, new)
UReplace ==
    \E old, new \in Objs :
        LET res == ReplaceOp(udic, old, new)
            fits == old.id = new.id /\ umap[old.id] = old
        IN  /\ UMutate(res)
            /\ ulast' = [NoCall EXCEPT !.op = "replace", !.obj = new, !.old = old,
                                       !.key = KeyOf(old), !.ok = res.ok, !.expOk = fits]
            /\ umap' = IF fits THEN [umap EXCEPT ![old.id] = new] ELSE umap
            /\ UNCHANGED <<fileVars, multiVars, isoVars, restVars>>

\* pop(key)
UPop ==
    \E key \in Keys :
        LET res == PopOp(udic, key)
        IN  /\ UMutate(res)
            /\ ulast' = [NoCall EXCEPT !.op = "pop", !.key = key, !.ok = res.ok,
                                       !.ret = PopRet(udic, key),
                                       !.expOk = umap[key] # NoObj, !.expRet = umap[key]]
            /\ umap' = [umap EXCEPT ![key] = NoObj]
            /\ UNCHANGED <<fileVars, multiVars, isoVars, restVars>>

\* get(key) and get(key, default): the file has not changed, _read parses
\* nothing and the answer comes from _dic
UGet ==
    \E key \in Keys, hasDefault \in BOOLEAN :
        LET res == GetOp(udic, key, hasDefault, NoObj)
        IN  /\ ulast' = [NoCall EXCEPT !.op = IF hasDefault THEN "get_default" ELSE "get",
                                       !.key = key, !.ok = res.ok, !.ret = res.ret,
                                       !.expOk = hasDefault \/ umap[key] # NoObj,
                                       !.expRet = umap[key]]
            /\ UNCHANGED <<udic, udisk, umap, ufresh, fileVars, multiVars, isoVars, restVars>>

\* contains(key); the answer is ok
UContains ==
    \E key \in Keys :
        /\ ulast' = [NoCall EXCEPT !.op = "contains", !.key = key,
                                   !.ok = ContainsOp(udic, key),
                                   !.expOk = umap[key] # NoObj]
        /\ UNCHANGED <<udic, udisk, umap, ufresh, fileVars, multiVars, isoVars, restVars>>

\* len(store); the answer is n
ULen ==
    /\ ulast' = [NoCall EXCEPT !.op = "len", !.n = LenOp(udic)]
    /\ UNCHANGED <<udic, udisk, umap, ufresh, fileVars, multiVars, isoVars, restVars>>

\* What somebody else leaves in the file: nothing, a comment and a record,
\* two lines with one key, the same line twice after another
DiskTexts ==
    { <<>>,
      <<CommentLine, <<1, 1>>>>,
      <<<<1, 0>>, <<1, 1>>>>,
      <<<<1, 0>>, <<2, 0>>, <<2, 0>>>> }

\* The file is rewritten from outside and the instance then reads: _read
\* parses the file, and the error of _deserialize leaves _dic as far as the
\* loop came
UReread ==
    \E text \in DiskTexts :
        LET res == Deserialize(text)
        IN  /\ udisk' = text
            /\ udic' = res.dic
            /\ ulast' = [NoCall EXCEPT !.op = "read", !.ok = res.ok]
            /\ umap' = [k \in Keys |-> IF HasKey(res.dic, k) THEN Lookup(res.dic, k)
                                         ELSE NoObj]
            /\ UNCHANGED <<ufresh, fileVars, multiVars, isoVars, restVars>>

\* A second instance is constructed on the path: __init__ calls _read
UFresh ==
    /\ ufresh' = Deserialize(udisk)
    /\ ulast' = [NoCall EXCEPT !.op = "fresh", !.ok = Deserialize(udisk).ok]
    /\ UNCHANGED <<udic, udisk, umap, fileVars, multiVars, isoVars, restVars>>

\* ------------------------------------------- the multi-key store, call by call
\* _dic is an insertion-ordered dict of lists: a sequence of <<key, list>>.
InList(list, obj) == \E n \in 1..Len(list) : list[n] = obj
\* self._dic.get(key, [])
ListOf(dic, key) == IF HasKey(dic, key) THEN Lookup(dic, key) ELSE <<>>
\* self._dic[key] = list, at the key's place or, for a new key, at the end
WithList(dic, key, list) ==
    IF HasKey(dic, key) THEN [dic EXCEPT ![IndexOf(dic, key)] = <<key, list>>]
    ELSE Append(dic, <<key, list>>)

\* MultiKeySerializableFile._serialize: the records of every list, in dict
\* order, one line each
RECURSIVE MultiSerialize(_)
MultiSerialize(dic) ==
    IF dic = <<>> THEN <<>>
    ELSE [n \in 1..Len(Head(dic)[2]) |-> Encode(Head(dic)[2][n])]
             \o MultiSerialize(Tail(dic))

\* MultiKeySerializableFile._deserialize, from the n-th line on, into dic
RECURSIVE MultiDeserializeFrom(_, _, _)
MultiDeserializeFrom(lines, n, dic) ==
    IF n > Len(lines) THEN [ok |-> TRUE, dic |-> dic]
    ELSE IF IsIgnored(lines[n]) THEN MultiDeserializeFrom(lines, n + 1, dic)
    ELSE LET obj == Decode(lines[n])
             key == KeyOf(obj)
         IN  IF HasKey(dic, key) THEN [ok |-> FALSE, dic |-> dic]
             ELSE IF InList(ListOf(dic, key), obj)
                  THEN [ok |-> FALSE, dic |-> WithList(dic, key, ListOf(dic, key))]
                  ELSE MultiDeserializeFrom(lines, n + 1,
                           WithList(dic, key, Append(ListOf(dic, key), obj)))
MultiDeserialize(lines) == MultiDeserializeFrom(lines, 1, <<>>)

\* add that raises whenever the key is stored, as the unique-key store does
MultiAddOp_KeyOnly(dic, obj) ==
    IF HasKey(dic, KeyOf(obj)) THEN [ok |-> FALSE, dic |-> dic]
    ELSE [ok |-> TRUE, dic |-> WithList(dic, KeyOf(obj), <<obj>>)]

\* MultiKeySerializableFile.add
MultiAddOp(dic, obj) ==
    IF InList(ListOf(dic, KeyOf(obj)), obj) THEN [ok |-> FALSE, dic |-> dic]
    ELSE [ok |-> TRUE,
          dic |-> WithList(dic, KeyOf(obj), Append(ListOf(dic, KeyOf(obj)), obj))]

\* MultiKeySerializableFile.replace: the loop over the list of the key, from
\* index n on.  The list is changed in place, so that an error raised later
\* in the loop leaves the change made before it.
RECURSIVE ReplaceLoop(_, _, _, _, _)
ReplaceLoop(list, n, old, new, replaced) ==
    IF n > Len(list) THEN [ok |-> replaced, list |-> list]
    ELSE IF list[n] = new THEN [ok |-> FALSE, list |-> list]
    ELSE IF list[n] = old
         THEN IF replaced THEN [ok |-> FALSE, list |-> list]
              ELSE ReplaceLoop([list EXCEPT ![n] = new], n + 1, old, new, TRUE)
         ELSE ReplaceLoop(list, n + 1, old, new, replaced)

\* MultiKeySerializableFile.replace
MultiReplaceOp(dic, old, new) ==
    IF ~HasKey(dic, KeyOf(old)) THEN [ok |-> FALSE, dic |-> dic]
    ELSE IF KeyOf(old) # KeyOf(new) THEN [ok |-> FALSE, dic |-> dic]
    ELSE LET res == ReplaceLoop(Lookup(dic, KeyOf(old)), 1, old, new, FALSE)
         IN  [ok |-> res.ok, dic |-> WithList(dic, KeyOf(old), res.list)]

\* The first index of list, from n on, whose record is equal to obj; 0: none
RECURSIVE FirstEqual(_, _, _)
FirstEqual(list, n, obj) ==
    IF n > Len(list) THEN 0
    ELSE IF list[n] = obj THEN n
    ELSE FirstEqual(list, n + 1, obj)

\* list.pop(n)
DropAt(list, n) == [m \in 1..(Len(list) - 1) |-> IF m < n THEN list[m] ELSE list[m + 1]]

\* pop(obj=obj) that removes every record of the key
MultiPopObjOp_WholeKey(dic, obj) ==
    LET key == KeyOf(obj)
        at == FirstEqual(ListOf(dic, key), 1, obj)
    IN  IF ~HasKey(dic, key) THEN [ok |-> FALSE, dic |-> dic, ret |-> NoObj]
        ELSE IF at = 0 THEN [ok |-> FALSE, dic |-> dic, ret |-> NoObj]
        ELSE [ok |-> TRUE, dic |-> Without(dic, key), ret |-> Lookup(dic, key)[at]]

\* pop(obj=obj) that leaves the key with an empty list when its last record
\* is removed
MultiPopObjOp_KeepsKey(dic, obj) ==
    LET key == KeyOf(obj)
        at == FirstEqual(ListOf(dic, key), 1, obj)
    IN  IF ~HasKey(dic, key) THEN [ok |-> FALSE, dic |-> dic, ret |-> NoObj]
        ELSE IF at = 0 THEN [ok |-> FALSE, dic |-> dic, ret |-> NoObj]
        ELSE [ok |-> TRUE,
              dic |-> WithList(dic, key, DropAt(Lookup(dic, key), at)),
              ret |-> Lookup(dic, key)[at]]

\* MultiKeySerializableFile.pop(obj=obj)
MultiPopObjOp(dic, obj) ==
    LET key == KeyOf(obj)
        at == FirstEqual(ListOf(dic, key), 1, obj)
    IN  IF ~HasKey(dic, key) THEN [ok |-> FALSE, dic |-> dic, ret |-> NoObj]
        ELSE IF at = 0 THEN [ok |-> FALSE, dic |-> dic, ret |-> NoObj]
        ELSE [ok |-> TRUE,
              dic |-> IF Len(Lookup(dic, key)) = 1 THEN Without(dic, key)
                      ELSE WithList(dic, key, DropAt(Lookup(dic, key), at)),
              ret |-> Lookup(dic, key)[at]]

\* MultiKeySerializableFile.pop(key)
MultiPopKeyOp(dic, key) ==
    IF ~HasKey(dic, key) THEN [ok |-> FALSE, dic |-> dic, ret |-> <<>>]
    ELSE [ok |-> TRUE, dic |-> Without(dic, key), ret |-> Lookup(dic, key)]

\* MultiKeySerializableFile.get(key), without a default
MultiGetOp(dic, key) ==
    IF HasKey(dic, key) THEN [ok |-> TRUE, ret |-> Lookup(dic, key)]
    ELSE [ok |-> FALSE, ret |-> <<>>]

\* MultiKeySerializableFile.count(): the grand total
RECURSIVE CountAll(_)
CountAll(dic) == IF dic = <<>> THEN 0 ELSE Len(Head(dic)[2]) + CountAll(Tail(dic))
\* MultiKeySerializableFile.count(key=key)
CountKey(dic, key) == IF ~HasKey(dic, key) THEN 0 ELSE Len(Lookup(dic, key))

\* MultiKeySerializableFile.contains(key)
MultiContainsOp(dic, key) == HasKey(dic, key)

\* MultiKeySerializableFile.count(only_unique=True): len(self._dic)
MultiCountUnique(dic) == Len(dic)

\* MultiKeySerializableFile.count: the grand total when no key is given
MultiCountOp(dic, hasKey, key) == IF ~hasKey THEN CountAll(dic) ELSE CountKey(dic, key)

\* A mutating call as a whole: the body gives res and the exit of the scope
\* writes the file, also when the body raised
MultiMutate(res) ==
    /\ mdic' = res.dic
    /\ mdisk' = MultiSerialize(res.dic)
    /\ UNCHANGED <<mfresh, fileVars, storeVars, isoVars, restVars>>

\* add(obj)
MultiAdd ==
    \E obj \in Objs :
        LET res == MultiAddOp(mdic, obj)
        IN  /\ MultiMutate(res)
            /\ mlast' = [NoCall EXCEPT !.op = "add", !.obj = obj, !.key = KeyOf(obj),
                                       !.ok = res.ok]

\* replace(old, new)
MultiReplace ==
    \E old, new \in Objs :
        LET res == MultiReplaceOp(mdic, old, new)
        IN  /\ MultiMutate(res)
            /\ mlast' = [NoCall EXCEPT !.op = "replace", !.obj = new, !.old = old,
                                       !.key = KeyOf(old), !.ok = res.ok]

\* pop(obj=obj)
MultiPopObj ==
    \E obj \in Objs :
        LET res == MultiPopObjOp(mdic, obj)
        IN  /\ MultiMutate(res)
            /\ mlast' = [NoCall EXCEPT !.op = "pop_obj", !.obj = obj, !.key = KeyOf(obj),
                                       !.ok = res.ok, !.ret = res.ret]

\* pop(key)
MultiPopKey ==
    \E key \in Keys :
        LET res == MultiPopKeyOp(mdic, key)
        IN  /\ MultiMutate(res)
            /\ mlast' = [NoCall EXCEPT !.op = "pop_key", !.key = key,
                                       !.ok = res.ok, !.list = res.ret]

\* get(key)
MultiGet ==
    \E key \in Keys :
        LET res == MultiGetOp(mdic, key)
        IN  /\ mlast' = [NoCall EXCEPT !.op = "get", !.key = key,
                                       !.ok = res.ok, !.list = res.ret]
            /\ UNCHANGED <<mdic, mdisk, mfresh, fileVars, storeVars, isoVars, restVars>>

\* count() and count(key=key); the answer is n
MultiCount ==
    \E hasKey \in BOOLEAN, key \in Keys :
        /\ mlast' = [NoCall EXCEPT !.op = IF hasKey THEN "count_key" ELSE "count",
                                   !.key = IF hasKey THEN key ELSE 0,
                                   !.n = MultiCountOp(mdic, hasKey, key)]
        /\ UNCHANGED <<mdic, mdisk, mfresh, fileVars, storeVars, isoVars, restVars>>

\* A second instance is constructed on the path: __init__ calls _read
MultiFresh ==
    /\ mfresh' = MultiDeserialize(mdisk)
    /\ mlast' = [NoCall EXCEPT !.op = "fresh", !.ok = MultiDeserialize(mdisk).ok]
    /\ UNCHANGED <<mdic, mdisk, fileVars, storeVars, isoVars, restVars>>

\* ---------------------------------------- the records as objects: references
\* A record is an object the caller and the store may both refer to.  icell
\* holds the objects, ibox the lists they refer to through some_list.  The
\* records of this part have the key field id, which stands for every field
\* that is assigned, and the field some_list, which is changed in place.
RefsOf(list) == {list[n] : n \in 1..Len(list)}
Stored(dic) == UNION {RefsOf(dic[k]) : k \in Keys}
Held(held) == {r \in Refs : held[r] # "none"}
FreeCells(cells) == {r \in Refs : cells[r] = NoCell}
FreeBoxes(cells) == {b \in Refs : \A r \in Refs : cells[r].some_list # b}
AllocCell(cells) == CHOOSE r \in FreeCells(cells) : \A s \in FreeCells(cells) : r <= s
AllocBox(cells, c) ==
    IF c \in FreeBoxes(cells) THEN c
    ELSE CHOOSE b \in FreeBoxes(cells) : \A s \in FreeBoxes(cells) : b <= s

\* Serializable.model_dump of an object: what == compares
Dump(h, r) == [id |-> h.cell[r].id, some_list |-> h.box[h.cell[r].some_list]]
DumpList(h, list) == [n \in 1..Len(list) |-> Dump(h, list[n])]

\* A shallow copy: a new object whose some_list is the list of the old one
model_copy_Shallow(h, r) ==
    LET c == AllocCell(h.cell)
    IN  [ref |-> c, cell |-> [h.cell EXCEPT ![c] = h.cell[r]], box |-> h.box]

\* obj.model_copy(deep=True): a new object that refers to a new list
model_copy(h, r) ==
    LET c == AllocCell(h.cell)
        b == AllocBox(h.cell, c)
    IN  [ref |-> c,
         cell |-> [h.cell EXCEPT ![c] = [h.cell[r] EXCEPT !.some_list = b]],
         box |-> [h.box EXCEPT ![b] = h.box[h.cell[r].some_list]]]

\* [obj.model_copy(deep=True) for obj in res]
RECURSIVE CopyList(_, _, _, _)
CopyList(h, list, n, out) ==
    IF n > Len(list) THEN [refs |-> out, cell |-> h.cell, box |-> h.box]
    ELSE LET c == model_copy(h, list[n])
         IN  CopyList([cell |-> c.cell, box |-> c.box], list, n + 1,
                      Append(out, c.ref))

\* An object nothing refers to any more is gone, and so is its list
Collect(h, dic, held) ==
    LET live == Stored(dic) \cup Held(held)
        cells == [r \in Refs |-> IF r \in live THEN h.cell[r] ELSE NoCell]
    IN  [cell |-> cells,
         box |-> [b \in Refs |->
                    IF \E r \in live : cells[r].some_list = b
                    THEN h.box[b] ELSE 0]]

\* The state after a call: the objects that stay, the dict, what the caller holds
IsoDone(h, dic, held, last) ==
    /\ icell' = Collect(h, dic, held).cell
    /\ ibox' = Collect(h, dic, held).box
    /\ idic' = dic
    /\ iheld' = held
    /\ ilast' = last
    /\ UNCHANGED <<icls, fileVars, storeVars, multiVars, restVars>>

Heap == [cell |-> icell, box |-> ibox]
Room(n) ==
    /\ Cardinality(FreeCells(icell)) >= n
    /\ Cardinality(FreeBoxes(icell)) >= n
CanHold(n) == Cardinality(Held(iheld)) + n <= MaxHeld

\* SerializableFile(path, 'id', Rec) or MultiKeySerializableFile(path, 'id', Rec)
IOpen ==
    /\ icls = "none"
    /\ \E cls \in {"unique", "multi"} : icls' = cls
    /\ ilast' = [NoIso EXCEPT !.op = "open"]
    /\ UNCHANGED <<icell, ibox, idic, iheld, fileVars, storeVars, multiVars, restVars>>

\* The caller constructs a record: obj = Rec(id, some_list)
INew ==
    /\ icls # "none" /\ Room(1) /\ CanHold(1)
    /\ \E k \in Keys, l \in Vals :
        LET c == AllocCell(icell)
            b == AllocBox(icell, c)
        IN  IsoDone([cell |-> [icell EXCEPT ![c] = [id |-> k, some_list |-> b]],
                     box |-> [ibox EXCEPT ![b] = l]],
                    idic, [iheld EXCEPT ![c] = "own"],
                    [NoIso EXCEPT !.op = "new"])

\* The caller changes a record it holds: obj.id = k, or
\* obj.some_list.append(..)
IMutate ==
    /\ icls # "none"
    /\ \E r \in Held(iheld) :
        \/ \E k \in Keys \ {icell[r].id} :
            IsoDone([cell |-> [icell EXCEPT ![r].id = k], box |-> ibox],
                    idic, iheld,
                    [NoIso EXCEPT !.op = "mutate"])
        \/ \E l \in Vals \ {ibox[icell[r].some_list]} :
            IsoDone([cell |-> icell, box |-> [ibox EXCEPT ![icell[r].some_list] = l]],
                    idic, iheld,
                    [NoIso EXCEPT !.op = "mutate"])

\* The caller lets go of a record
IDrop ==
    /\ icls # "none"
    /\ \E r \in Held(iheld) :
        IsoDone(Heap, idic, [iheld EXCEPT ![r] = "none"],
                [NoIso EXCEPT !.op = "drop"])

\* get(key) of either store: the clone, or the list of the clones
IGet ==
    /\ icls # "none"
    /\ \E k \in Keys :
        /\ Room(Len(idic[k])) /\ CanHold(Len(idic[k]))
        /\ IF idic[k] = <<>>
           THEN IsoDone(Heap, idic, iheld,
                        [NoIso EXCEPT !.op = "get", !.key = k, !.ok = FALSE])
           ELSE LET c == CopyList(Heap, idic[k], 1, <<>>)
                IN  IsoDone([cell |-> c.cell, box |-> c.box], idic,
                            [r \in Refs |-> IF r \in RefsOf(c.refs) THEN "got"
                                            ELSE iheld[r]],
                            [NoIso EXCEPT !.op = "get", !.key = k, !.refs = c.refs])

\* set(obj) of the unique-key store
ISet ==
    /\ icls = "unique" /\ Room(1)
    /\ \E r \in Held(iheld) :
        LET c == model_copy(Heap, r)
            key == c.cell[c.ref].id
        IN  IsoDone([cell |-> c.cell, box |-> c.box],
                    [idic EXCEPT ![key] = <<c.ref>>],
                    [iheld EXCEPT ![r] = "given"],
                    [NoIso EXCEPT !.op = "set"])

\* add(obj) of either store
IAdd ==
    /\ icls # "none" /\ Room(1)
    /\ \E r \in Held(iheld) :
        LET c == model_copy(Heap, r)
            h == [cell |-> c.cell, box |-> c.box]
            key == c.cell[c.ref].id
            exists == IF icls = "unique" THEN idic[key] # <<>>
                      ELSE \E n \in 1..Len(idic[key]) :
                              Dump(h, idic[key][n]) = Dump(h, c.ref)
        IN  IF exists
            THEN IsoDone(h, idic, iheld,
                         [NoIso EXCEPT !.op = "add",
                                       !.ok = FALSE])
            ELSE IsoDone(h, [idic EXCEPT ![key] = Append(@, c.ref)],
                         [iheld EXCEPT ![r] = "given"],
                         [NoIso EXCEPT !.op = "add"])

\* The loop of replace of the multi-key store, on the objects
RECURSIVE IReplaceLoop(_, _, _, _, _, _)
IReplaceLoop(h, list, n, old, new, replaced) ==
    IF n > Len(list) THEN [ok |-> replaced, list |-> list]
    ELSE IF Dump(h, list[n]) = Dump(h, new) THEN [ok |-> FALSE, list |-> list]
    ELSE IF Dump(h, list[n]) = Dump(h, old)
         THEN IF replaced THEN [ok |-> FALSE, list |-> list]
              ELSE IReplaceLoop(h, [list EXCEPT ![n] = new], n + 1, old, new, TRUE)
    ELSE IReplaceLoop(h, list, n + 1, old, new, replaced)

\* replace(old, new) of either store
IReplace ==
    /\ icls # "none" /\ Room(1)
    /\ \E old \in Held(iheld), new \in Held(iheld) :
        LET c == model_copy(Heap, new)
            h == [cell |-> c.cell, box |-> c.box]
            key == icell[old].id
            res == IF idic[key] = <<>> \/ key # c.cell[c.ref].id
                   THEN [ok |-> FALSE, list |-> idic[key]]
                   ELSE IF icls = "unique"
                   THEN IF Dump(h, old) # Dump(h, idic[key][1])
                        THEN [ok |-> FALSE, list |-> idic[key]]
                        ELSE [ok |-> TRUE, list |-> <<c.ref>>]
                   ELSE IReplaceLoop(h, idic[key], 1, old, c.ref, FALSE)
        IN  IsoDone(h, [idic EXCEPT ![key] = res.list],
                    IF res.ok THEN [iheld EXCEPT ![new] = "given"] ELSE iheld,
                    [NoIso EXCEPT !.op = "replace",
                                  !.ok = res.ok])

\* pop(key) of either store: the stored objects themselves leave the dict
IPop ==
    /\ icls # "none"
    /\ \E k \in Keys :
        /\ CanHold(Len(idic[k]))
        /\ IF idic[k] = <<>>
           THEN IsoDone(Heap, idic, iheld,
                        [NoIso EXCEPT !.op = "pop", !.ok = FALSE])
           ELSE IsoDone(Heap, [idic EXCEPT ![k] = <<>>],
                        [r \in Refs |-> IF r \in RefsOf(idic[k]) THEN "own"
                                        ELSE iheld[r]],
                        [NoIso EXCEPT !.op = "pop"])

\* pop(obj=r) of either store: the stored object of r's key, or the first
\* stored object equal to r, leaves the dict
IPopObj ==
    /\ icls # "none" /\ CanHold(1)
    /\ \E r \in Held(iheld) :
        LET key == icell[r].id
            list == idic[key]
            hits == {n \in 1..Len(list) :
                        icls = "unique" \/ Dump(Heap, list[n]) = Dump(Heap, r)}
            i == CHOOSE n \in hits : \A m \in hits : n <= m
        IN  IF hits = {}
            THEN IsoDone(Heap, idic, iheld,
                         [NoIso EXCEPT !.op = "pop",
                                       !.ok = FALSE])
            ELSE IsoDone(Heap, [idic EXCEPT ![key] = DropAt(list, i)],
                         [iheld EXCEPT ![list[i]] = "own"],
                         [NoIso EXCEPT !.op = "pop"])

\* What get returns for every key
IView == [k \in Keys |-> DumpList(Heap, idic[k])]

\* ------------------------------------------------------ call_retriable_func
\* Time is counted in tenths of a second.  The arguments a call may be given
MaxRetriesArgs == {0 - 1, 0, 1, 2}
WaitArgs == {0, 1, 2}
MultiplierArgs == {1, 2}
MaxWaitArgs == {0 - 1, 0, 1, 3}

\* The handler gives up at once: retries_count == max_retries
GivesUp_Never(count, limit) == FALSE
GivesUp(count, limit) == count = limit

\* The wait is cut down to max_wait: max_wait > 0 and wait_between_retries > max_wait
Capped(wait, cap) == IF cap > 0 /\ wait > cap THEN cap ELSE wait

\* call_retriable_func(func, max_retries, wait_between_retries, wait_multiplier, max_wait)
CallRetriableFunc ==
    /\ fpc \in {"idle", "done"}
    /\ \E n \in MaxRetriesArgs, w \in WaitArgs, m \in MultiplierArgs, c \in MaxWaitArgs :
        /\ max_retries' = n
        /\ wait_between_retries' = w
        /\ wait0' = w
        /\ wait_multiplier' = m
        /\ max_wait' = c
    /\ fpc' = "call"
    /\ retries_count' = 0
    /\ result' = "none"
    /\ calls' = 0
    /\ sleeps' = <<>>
    /\ UNCHANGED <<fileVars, storeVars, multiVars, isoVars, strVars, recVars, lateVars>>

\* return func(*args, **kwargs): func returns
FuncReturns ==
    /\ fpc = "call"
    /\ calls' = calls + 1
    /\ result' = "value"
    /\ fpc' = "done"
    /\ UNCHANGED <<max_retries, wait_multiplier, max_wait, wait_between_retries,
                   retries_count, sleeps, wait0, fileVars, storeVars, multiVars, isoVars,
                   strVars, recVars, lateVars>>

\* func raises RetryInterrupt
FuncRaises ==
    /\ fpc = "call"
    /\ calls < MaxCalls
    /\ calls' = calls + 1
    /\ fpc' = "caught"
    /\ UNCHANGED <<max_retries, wait_multiplier, max_wait, wait_between_retries,
                   retries_count, result, sleeps, wait0, fileVars, storeVars,
                   multiVars, isoVars, strVars, recVars, lateVars>>

\* except RetryInterrupt: if retries_count == max_retries: return
GiveUp ==
    /\ fpc = "caught"
    /\ GivesUp(retries_count, max_retries)
    /\ result' = "None"
    /\ fpc' = "done"
    /\ UNCHANGED <<max_retries, wait_multiplier, max_wait, wait_between_retries,
                   retries_count, calls, sleeps, wait0, fileVars, storeVars,
                   multiVars, isoVars, strVars, recVars, lateVars>>

\* except RetryInterrupt: retries_count += 1, the sleep, and the loop goes round
Retry ==
    /\ fpc = "caught"
    /\ ~GivesUp(retries_count, max_retries)
    /\ retries_count' = retries_count + 1
    /\ IF wait_between_retries > 0
       THEN /\ sleeps' = Append(sleeps, Capped(wait_between_retries, max_wait))
            /\ wait_between_retries' =
                  Capped(wait_between_retries, max_wait) * wait_multiplier
       ELSE UNCHANGED <<sleeps, wait_between_retries>>
    /\ fpc' = "call"
    /\ UNCHANGED <<max_retries, wait_multiplier, max_wait, result, calls, wait0,
                   fileVars, storeVars, multiVars, isoVars, strVars, recVars, lateVars>>

\* --------------------------------------------------- StringSerializableFile
\* A string is a sequence of characters; a file is its text, '\n' included.
Chars == {" ", "#", "a"}
NL == "\n"
Strings == UNION {[1..n -> Chars] : n \in 0..MaxStrLen}
\* The values: TestStringModel(data=s)
StrValues == [data : Strings]
to_string(val) == val.data
from_string(data) == [data |-> data]

\* str.strip()
RECURSIVE LStrip(_)
LStrip(s) == IF s # <<>> /\ Head(s) \in {" ", NL} THEN LStrip(Tail(s)) ELSE s
RECURSIVE RStrip(_)
RStrip(s) ==
    IF s # <<>> /\ s[Len(s)] \in {" ", NL} THEN RStrip(SubSeq(s, 1, Len(s) - 1)) ELSE s
Strip(s) == RStrip(LStrip(s))

\* len(line) == 0 or line.startswith('#'), of the stripped line
IsSkipped(line) == Strip(line) = <<>> \/ Strip(line)[1] = "#"

\* '\n'.join(strings)
RECURSIVE Join(_)
Join(strings) ==
    IF strings = <<>> THEN <<>>
    ELSE IF Len(strings) = 1 THEN strings[1]
    ELSE strings[1] \o <<NL>> \o Join(Tail(strings))

\* file.readlines(): every line ends with its '\n', the last one may not
RECURSIVE ReadLines(_, _)
ReadLines(text, line) ==
    IF text = <<>> THEN (IF line = <<>> THEN <<>> ELSE <<line>>)
    ELSE IF Head(text) = NL THEN <<Append(line, NL)>> \o ReadLines(Tail(text), <<>>)
    ELSE ReadLines(Tail(text), Append(line, Head(text)))

\* StringSerializableFile._deserialize
StrDeserialize(lines) ==
    {from_string(Strip(lines[n])) : n \in {m \in 1..Len(lines) : ~IsSkipped(lines[m])}}

\* The orders in which a set may be iterated
Orders(set) ==
    {seq \in [1..Cardinality(set) -> set] : \A v \in set : \E n \in DOMAIN seq : seq[n] = v}

\* StringSerializableFile._serialize, the values taken in the order seq
StrSerialize(seq) == Join([n \in 1..Len(seq) |-> to_string(seq[n])])

\* A mutating call from its body to the end of its scope, where _write
\* replaces the text of the file
StrMutate(values, op) ==
    /\ svalues' = values
    /\ \E seq \in Orders(values) :
        /\ stext' = StrSerialize(seq)
        /\ slast' = [op |-> op, text |-> StrSerialize(seq)]
    /\ UNCHANGED <<sfresh, fileVars, storeVars, multiVars, isoVars, retryVars, recVars, lateVars>>

\* add(value)
StrAdd ==
    \E v \in StrValues :
        /\ Cardinality(svalues \cup {v}) <= MaxValues
        /\ StrMutate(svalues \cup {v}, "add")

\* remove(value): raises KeyError when the value is not stored
StrRemove ==
    \E v \in StrValues :
        IF v \in svalues THEN StrMutate(svalues \ {v}, "remove")
        ELSE StrMutate(svalues, "remove_raises")

\* replace(old, new): raises KeyError when old is not stored
StrReplace ==
    \E old \in StrValues, new \in StrValues :
        IF old \in svalues THEN StrMutate((svalues \ {old}) \cup {new}, "replace")
        ELSE StrMutate(svalues, "replace_raises")

\* clear()
StrClear ==
    \E values \in {{}} : StrMutate(values, "clear")

\* A second instance is constructed on the file the store wrote
StrFresh ==
    /\ sfresh' = StrDeserialize(ReadLines(stext, <<>>))
    /\ slast' = [op |-> "fresh", text |-> stext]
    /\ UNCHANGED <<svalues, stext, fileVars, storeVars, multiVars, isoVars, retryVars, recVars, lateVars>>

\* Texts somebody else wrote: blank lines, comments, values
StrTexts ==
    {<<"a", NL, NL, "#", "a">>,
     <<" ", "#", NL, "a", " ", NL>>,
     <<" ", NL, "a", "#">>,
     <<NL>>}

\* An instance is constructed on a file somebody else wrote
StrOpen ==
    \E text \in StrTexts :
        /\ sfresh' = StrDeserialize(ReadLines(text, <<>>))
        /\ slast' = [op |-> "open", text |-> text]
        /\ UNCHANGED <<svalues, stext, fileVars, storeVars, multiVars, isoVars, retryVars, recVars, lateVars>>

\* ---------------------------------------------------------------- Serializable
\* The record classes: each field has an update mode, a type, a default unless
\* it is required, and may be excluded from serialization (Field(exclude=True)).
Required(mode, type) ==
    [mode |-> mode, type |-> type, required |-> TRUE, exclude |-> FALSE]
Excluded(mode, type) ==
    [mode |-> mode, type |-> type, required |-> FALSE, exclude |-> TRUE]
Defaulted(mode, type) ==
    [mode |-> mode, type |-> type, required |-> FALSE, exclude |-> FALSE]

Classes == {"TestModel", "SimilarModel", "ExcludedFieldModel", "ExcludedMergeModel",
            "IgnoreModel", "DictModel", "SetModel", "ListAppendModel",
            "ListAppendIfNotExistsModel", "ChildModel", "OtherChild", "ParentModel",
            "InvalidMergeModel", "InvalidAppendModel", "MixedModel"}

Schema(cls) ==
    CASE cls \in {"TestModel", "SimilarModel"} ->
            [name |-> Required("REPLACE", "int"), value |-> Defaulted("REPLACE", "int")]
      [] cls = "ExcludedFieldModel" ->
            [title |-> Required("REPLACE", "int"),
             excluded_field |-> Excluded("REPLACE", "int")]
      [] cls = "ExcludedMergeModel" -> [hidden |-> Excluded("MERGE", "int")]
      [] cls = "IgnoreModel" -> [ignored |-> Defaulted("IGNORE", "int")]
      [] cls = "DictModel" -> [data |-> Defaulted("MERGE", "dict")]
      [] cls = "SetModel" -> [items |-> Defaulted("MERGE", "set")]
      [] cls = "ListAppendModel" -> [entries |-> Defaulted("LIST_APPEND", "list")]
      [] cls = "ListAppendIfNotExistsModel" ->
            [uniques |-> Defaulted("LIST_APPEND_IF_NOT_EXISTS", "list")]
      [] cls \in {"ChildModel", "OtherChild"} ->
            [label |-> Defaulted("REPLACE", "int"), tags |-> Defaulted("MERGE", "set")]
      [] cls = "ParentModel" -> [child |-> Defaulted("MERGE", "rec")]
      [] cls = "InvalidMergeModel" -> [number |-> Defaulted("MERGE", "int")]
      [] cls = "InvalidAppendModel" -> [count |-> Defaulted("LIST_APPEND", "int")]
      [] cls = "MixedModel" ->
            [first |-> Defaulted("REPLACE", "int"), broken |-> Defaulted("MERGE", "int")]
      [] OTHER -> NoArgs

Fields(cls) == DOMAIN Schema(cls)
\* The fields in the order of their declaration
FieldOrder(cls) ==
    CASE cls \in {"TestModel", "SimilarModel"} -> <<"name", "value">>
      [] cls = "ExcludedFieldModel" -> <<"title", "excluded_field">>
      [] cls = "ExcludedMergeModel" -> <<"hidden">>
      [] cls = "IgnoreModel" -> <<"ignored">>
      [] cls = "DictModel" -> <<"data">>
      [] cls = "SetModel" -> <<"items">>
      [] cls = "ListAppendModel" -> <<"entries">>
      [] cls = "ListAppendIfNotExistsModel" -> <<"uniques">>
      [] cls \in {"ChildModel", "OtherChild"} -> <<"label", "tags">>
      [] cls = "ParentModel" -> <<"child">>
      [] cls = "InvalidMergeModel" -> <<"number">>
      [] cls = "InvalidAppendModel" -> <<"count">>
      [] cls = "MixedModel" -> <<"first", "broken">>
      [] OTHER -> <<>>

\* cls(**given): the fields that are passed are set, the others take their
\* default.  A nested record defaults to ChildModel().
RECURSIVE New(_, _)
New(cls, given) ==
    [cls |-> cls,
     set |-> DOMAIN given,
     val |-> [f \in Fields(cls) |->
                IF f \in DOMAIN given THEN given[f]
                ELSE CASE Schema(cls)[f].type = "int" -> 0
                       [] Schema(cls)[f].type = "list" -> <<>>
                       [] Schema(cls)[f].type = "rec" -> New("ChildModel", NoArgs)
                       [] OTHER -> {}]]

\* The values of the fields: dicts are sets of <<key, value>>
Dicts == {d \in SUBSET {<<1, 1>>, <<1, 2>>, <<2, 1>>} :
            \A p, q \in d : p[1] = q[1] => p = q}
Sets == SUBSET {1, 2}
Lists == {<<>>, <<1>>, <<2>>, <<1, 2>>, <<2, 1>>, <<2, 2>>}
Children ==
    {New("ChildModel", NoArgs)}
    \cup {New("ChildModel", [label |-> l]) : l \in Vals}
    \cup {New("ChildModel", [tags |-> t]) : t \in Sets \ {{1, 2}}}
    \cup {New("ChildModel", [label |-> 1, tags |-> t]) : t \in {{}, {2}}}
    \cup {New("OtherChild", [label |-> 1])}

\* The arguments the records of a class are constructed with
Given(cls) ==
    CASE cls \in {"TestModel", "SimilarModel", "BaseModel"} ->
            {[name |-> n] : n \in Vals} \cup {[name |-> n, value |-> v] : n, v \in Vals}
      [] cls = "ExcludedFieldModel" ->
            {[title |-> n, excluded_field |-> v] : n, v \in Vals}
      [] cls = "ExcludedMergeModel" -> {NoArgs} \cup {[hidden |-> v] : v \in Vals}
      [] cls = "IgnoreModel" -> {NoArgs} \cup {[ignored |-> v] : v \in Vals}
      [] cls = "DictModel" -> {NoArgs} \cup {[data |-> d] : d \in Dicts}
      [] cls = "SetModel" -> {NoArgs} \cup {[items |-> t] : t \in Sets}
      [] cls = "ListAppendModel" -> {NoArgs} \cup {[entries |-> l] : l \in Lists}
      [] cls = "ListAppendIfNotExistsModel" -> {NoArgs} \cup {[uniques |-> l] : l \in Lists}
      [] cls = "ParentModel" -> {NoArgs} \cup {[child |-> c] : c \in Children}
      [] cls = "InvalidMergeModel" -> {NoArgs} \cup {[number |-> v] : v \in Vals}
      [] cls = "InvalidAppendModel" -> {NoArgs} \cup {[count |-> v] : v \in Vals}
      [] cls = "MixedModel" ->
            {NoArgs} \cup {[first |-> v] : v \in Vals}
            \cup {[first |-> v, broken |-> 0] : v \in Vals}
      [] OTHER -> {}
Objects(cls) == {New(cls, given) : given \in Given(cls)}

\* isinstance(value, Serializable)
IsSerializable(value) == value.cls \in Classes

\* type(val): the class of a record, else the type of the field
TypeOf(cls, f, val) == IF Schema(cls)[f].type = "rec" THEN val.cls ELSE Schema(cls)[f].type

\* model_dump with exclude_unset=True
RECURSIVE model_dump_ExcludeUnset(_)
model_dump_ExcludeUnset(obj) ==
    [f \in {g \in obj.set : ~Schema(obj.cls)[g].exclude} |->
        IF Schema(obj.cls)[f].type = "rec" THEN model_dump_ExcludeUnset(obj.val[f])
        ELSE obj.val[f]]

\* A dump that keeps the fields excluded from serialization
RECURSIVE model_dump_WithExcluded(_)
model_dump_WithExcluded(obj) ==
    [f \in Fields(obj.cls) |->
        IF Schema(obj.cls)[f].type = "rec" THEN model_dump_WithExcluded(obj.val[f])
        ELSE obj.val[f]]

\* model_dump(): every field that is not excluded from serialization, a
\* nested record as its own dump
RECURSIVE model_dump(_)
model_dump(obj) ==
    [f \in {g \in Fields(obj.cls) : ~Schema(obj.cls)[g].exclude} |->
        IF Schema(obj.cls)[f].type = "rec" THEN model_dump(obj.val[f])
        ELSE obj.val[f]]

\* Serializable.__eq__
Eq(self, value) ==
    /\ IsSerializable(value)
    /\ DOMAIN model_dump(self) = DOMAIN model_dump(value)
    /\ \A f \in DOMAIN model_dump(self) : model_dump(self)[f] = model_dump(value)[f]

\* model_dump_json(): the line of a record, field -> value
model_dump_json(obj) ==
    [f \in {g \in Fields(obj.cls) : ~Schema(obj.cls)[g].exclude} |->
        IF Schema(obj.cls)[f].type = "rec" THEN model_dump(obj.val[f])
        ELSE obj.val[f]]

\* value_type.model_validate_json(line): a field the line lacks takes its
\* default; a required field it lacks is an error
RECURSIVE model_validate_json(_, _)
model_validate_json(cls, line) ==
    IF \E f \in Fields(cls) : Schema(cls)[f].required /\ f \notin DOMAIN line
    THEN [ok |-> FALSE, obj |-> NoRec]
    ELSE [ok |-> TRUE,
          obj |-> New(cls, [f \in DOMAIN line |->
                              IF Schema(cls)[f].type = "rec"
                              THEN model_validate_json("ChildModel", line[f]).obj
                              ELSE line[f]])]

\* UpdateMode.validate_type(type(val), type(other_val)): TRUE when it does
\* not raise
validate_type(mode, field_type, other_type) ==
    CASE mode \in {"LIST_APPEND", "LIST_APPEND_IF_NOT_EXISTS"} ->
            field_type = "list" /\ other_type = "list"
      [] mode = "MERGE" ->
            /\ field_type \in {"dict", "set"} \cup Classes
            /\ other_type \in {"dict", "set"} \cup Classes
            /\ field_type = other_type
      [] OTHER -> TRUE

\* dict.update with the entries of self winning
DictUpdate_SelfWins(val, other_val) ==
    val \cup {p \in other_val : \A q \in val : q[1] # p[1]}
\* dict.update: val.update(other_val)
DictUpdate(val, other_val) ==
    other_val \cup {p \in val : \A q \in other_val : q[1] # p[1]}

\* set.update that keeps only what both hold
SetUpdate_Common(val, other_val) == val \cap other_val
\* set.update: val.update(other_val)
SetUpdate(val, other_val) == val \cup other_val

\* val.extend(other_val)
Extend(val, other_val) == val \o other_val

\* The loop that tests every item against the list as it was
AppendIfNotIn_Stale(val, other_val, n) ==
    val \o SelectSeq(other_val, LAMBDA x : \A m \in 1..Len(val) : val[m] # x)
\* for item in other_val: if item not in val: val.append(item)
RECURSIVE AppendIfNotIn(_, _, _)
AppendIfNotIn(val, other_val, n) ==
    IF n > Len(other_val) THEN val
    ELSE IF \E m \in 1..Len(val) : val[m] = other_val[n]
         THEN AppendIfNotIn(val, other_val, n + 1)
         ELSE AppendIfNotIn(Append(val, other_val[n]), other_val, n + 1)

\* The keys update goes through, whatever is set on other or excluded
UpdateKeys_All(other, excluded) == FieldOrder(other.cls)
\* other.model_dump(exclude_unset=True).items(), without the keys in excluded
UpdateKeys(other, excluded) ==
    SelectSeq(FieldOrder(other.cls),
              LAMBDA key : key \in DOMAIN model_dump_ExcludeUnset(other)
                           /\ key \notin excluded)

\* Serializable.update(other, excluded): the result is whether it returned
\* without TypeError, and self as the call leaves it
RECURSIVE UpdateFrom(_, _, _, _)
UpdateOp(self, other, excluded) ==
    IF other.cls # self.cls THEN [ok |-> FALSE, self |-> self]
    ELSE UpdateFrom(self, other, UpdateKeys(other, excluded), 1)

\* The loop of update, from the n-th key on
UpdateFrom(self, other, keys, n) ==
    IF n > Len(keys) THEN [ok |-> TRUE, self |-> self]
    ELSE LET key == keys[n]
             mode == Schema(self.cls)[key].mode
             val == self.val[key]
             other_val == other.val[key]
             nested == UpdateOp(val, other_val, {})
         IN  IF ~validate_type(mode, TypeOf(self.cls, key, val),
                               TypeOf(other.cls, key, other_val))
             THEN [ok |-> FALSE, self |-> self]
             ELSE CASE mode = "REPLACE" ->
                         UpdateFrom([self EXCEPT !.val[key] = other_val,
                                                 !.set = @ \cup {key}],
                                    other, keys, n + 1)
                    [] mode = "LIST_APPEND" ->
                         UpdateFrom([self EXCEPT !.val[key] = Extend(val, other_val)],
                                    other, keys, n + 1)
                    [] mode = "LIST_APPEND_IF_NOT_EXISTS" ->
                         UpdateFrom([self EXCEPT !.val[key] = AppendIfNotIn(val, other_val, 1)],
                                    other, keys, n + 1)
                    [] mode = "MERGE" /\ Schema(self.cls)[key].type = "dict" ->
                         UpdateFrom([self EXCEPT !.val[key] = DictUpdate(val, other_val)],
                                    other, keys, n + 1)
                    [] mode = "MERGE" /\ Schema(self.cls)[key].type = "set" ->
                         UpdateFrom([self EXCEPT !.val[key] = SetUpdate(val, other_val)],
                                    other, keys, n + 1)
                    [] mode = "MERGE" /\ Schema(self.cls)[key].type = "rec" ->
                         IF nested.ok
                         THEN UpdateFrom([self EXCEPT !.val[key] = nested.self],
                                         other, keys, n + 1)
                         ELSE [ok |-> FALSE,
                               self |-> [self EXCEPT !.val[key] = nested.self]]
                    [] OTHER -> UpdateFrom(self, other, keys, n + 1)

\* The classes a record is compared with and updated from: its own, the one
\* with the same fields, a model that is not a Serializable, and one with
\* other fields
OtherClasses(cls) ==
    {cls, "BaseModel", IF cls = "IgnoreModel" THEN "SetModel" ELSE "IgnoreModel"}
    \cup (IF cls = "TestModel" THEN {"SimilarModel"} ELSE {})

\* The objects of a class that self meets: any of its own class, its like in
\* a class with the same fields, the default one of a class with other fields
Instances(self, cls) ==
    CASE cls = self.cls -> Objects(cls)
      [] cls \in {"BaseModel", "SimilarModel"} -> {[self EXCEPT !.cls = cls]}
      [] OTHER -> {New(cls, NoArgs)}

\* The sets of field names passed as excluded
ExcludedArgs(cls) == {{}} \cup {{f} : f \in Fields(cls)}

\* obj = cls(**given)
RecNew ==
    /\ robj = NoRec
    /\ \E cls \in Classes \ {"ChildModel", "OtherChild"} : \E given \in Given(cls) :
          /\ robj' = New(cls, given)
          /\ rbase' = New(cls, given)
          /\ rapplied' = <<>>
          /\ rlast' = [NoRecOp EXCEPT !.op = "new"]
    /\ UNCHANGED <<fileVars, storeVars, multiVars, isoVars, retryVars, strVars, lateVars>>

\* obj == value, for a record as it was constructed or loaded
RecEq ==
    /\ robj # NoRec
    /\ rapplied = <<>>
    /\ \E cls \in OtherClasses(robj.cls) : \E value \in Instances(robj, cls) :
          rlast' = [NoRecOp EXCEPT !.op = "eq", !.ok = Eq(robj, value), !.other = value]
    /\ UNCHANGED <<robj, rbase, rapplied, fileVars, storeVars, multiVars, isoVars,
                   retryVars, strVars, lateVars>>

\* obj.update(other, excluded)
RecUpdate ==
    /\ robj # NoRec
    /\ Len(rapplied) < MaxUpdates
    /\ \E cls \in OtherClasses(robj.cls) \ {"BaseModel"} :
       \E other \in Instances(robj, cls) : \E excluded \in ExcludedArgs(robj.cls) :
          /\ robj' = UpdateOp(robj, other, excluded).self
          /\ rapplied' = Append(rapplied, [other |-> other, excluded |-> excluded])
          /\ rlast' = [NoRecOp EXCEPT !.op = "update",
                                      !.ok = UpdateOp(robj, other, excluded).ok,
                                      !.self = robj, !.other = other,
                                      !.excluded = excluded]
    /\ UNCHANGED <<rbase, fileVars, storeVars, multiVars, isoVars, retryVars, strVars, lateVars>>

\* SerializableFile._serialize: the line of the record
RecDump ==
    /\ robj # NoRec
    /\ rlast' = [NoRecOp EXCEPT !.op = "dump", !.line = model_dump_json(robj)]
    /\ UNCHANGED <<robj, rbase, rapplied, fileVars, storeVars, multiVars, isoVars,
                   retryVars, strVars, lateVars>>

\* The lines of a class: any of its fields may be missing
Lines(cls) ==
    UNION {{[f \in keep |-> model_dump_json(obj)[f]] :
                keep \in SUBSET DOMAIN model_dump_json(obj)} : obj \in Objects(cls)}

\* SerializableFile._deserialize: the record of a line
RecLoad ==
    \E cls \in Classes \ {"ChildModel", "OtherChild"} : \E line \in Lines(cls) :
        /\ robj = NoRec
        /\ robj' = model_validate_json(cls, line).obj
        /\ rbase' = model_validate_json(cls, line).obj
        /\ rapplied' = <<>>
        /\ rlast' = [NoRecOp EXCEPT !.op = "load", !.ok = model_validate_json(cls, line).ok,
                                    !.self = [robj EXCEPT !.cls = cls], !.line = line]
        /\ UNCHANGED <<fileVars, storeVars, multiVars, isoVars, retryVars, strVars, lateVars>>

\* ------------------------------------------------------------------ BaseWorker
\* What the steps of the workers and of abort() leave alone
WorkerFrame ==
    UNCHANGED <<wstart, spc, work, workers_checkpoints, workers_num, sw, global_status, sseen,
                sruns, fileVars, storeVars, multiVars, isoVars, retryVars, strVars,
                recVars, setVars>>

\* prepare(work, start_index) returns: it raises ValueError on a start index
\* outside the work, and an Exception while the worker is working
PrepareOk(len, start_index, st) ==
    /\ 0 <= start_index /\ start_index < len
    /\ st # WORKING

\* is_alive(): the thread was started and run has not ended
IsAlive(i) == wpc[i] \in {"started", "test", "len", "work"}

\* worker = worker_type(0); worker.prepare(work, start_index); worker.start()
WorkerPrepare ==
    /\ spc = "idle"
    /\ wpc[0] = "new"
    /\ \E len \in 1..MaxWork : \E start_index \in 0..len :
          IF PrepareOk(len, start_index, status[0])
          THEN /\ work_len' = [work_len EXCEPT ![0] = len]
               /\ work_index' = [work_index EXCEPT ![0] = start_index]
               /\ wstart' = [wstart EXCEPT ![0] = start_index]
               /\ wpc' = [wpc EXCEPT ![0] = "started"]
          ELSE UNCHANGED <<work_len, work_index, wpc, wstart>>
    /\ UNCHANGED <<status, wlog, apc, asignal, sdone>>
    /\ UNCHANGED <<spc, work, workers_checkpoints, workers_num, sw, global_status, sseen,
                   sruns, fileVars, storeVars, multiVars, isoVars, retryVars, strVars,
                   recVars, setVars>>

\* run: self._status = WorkerStatus.WORKING
WorkerRun(i) ==
    /\ wpc[i] = "started"
    /\ status' = [status EXCEPT ![i] = WORKING]
    /\ wpc' = [wpc EXCEPT ![i] = "test"]
    /\ UNCHANGED <<work_len, work_index, wlog, apc, asignal, sdone>>
    /\ WorkerFrame

\* run: while self._status == WorkerStatus.WORKING
WorkerTest(i) ==
    /\ wpc[i] = "test"
    /\ wpc' = [wpc EXCEPT ![i] = IF status[i] = WORKING THEN "len" ELSE "exited"]
    /\ UNCHANGED <<status, work_len, work_index, wlog, apc, asignal, sdone>>
    /\ WorkerFrame

\* A test that takes the last element for the end of the work
WorkerLen_OneShort(i) ==
    /\ wpc[i] = "len"
    /\ IF work_len[i] <= work_index[i] + 1
       THEN /\ status' = [status EXCEPT ![i] = FINISHED_ALL_WORK]
            /\ wpc' = [wpc EXCEPT ![i] = "exited"]
       ELSE /\ wpc' = [wpc EXCEPT ![i] = "work"]
            /\ UNCHANGED status
    /\ UNCHANGED <<work_len, work_index, wlog, apc, asignal, sdone>>
    /\ WorkerFrame

\* run: if len(self._work) <= self._work_index
WorkerLen(i) ==
    /\ wpc[i] = "len"
    /\ IF work_len[i] <= work_index[i]
       THEN /\ status' = [status EXCEPT ![i] = FINISHED_ALL_WORK]
            /\ wpc' = [wpc EXCEPT ![i] = "exited"]
       ELSE /\ wpc' = [wpc EXCEPT ![i] = "work"]
            /\ UNCHANGED status
    /\ UNCHANGED <<work_len, work_index, wlog, apc, asignal, sdone>>
    /\ WorkerFrame

\* run: self._do_work(self._work[self._work_index]) returns a false value
WorkerDoWork(i) ==
    /\ wpc[i] = "work"
    /\ wlog' = [wlog EXCEPT ![i] = Append(@, [elem |-> work_index[i], out |-> "done"])]
    /\ sdone' = [sdone EXCEPT ![i] = @ \cup {work_index[i]}]
    /\ work_index' = [work_index EXCEPT ![i] = @ + 1]
    /\ wpc' = [wpc EXCEPT ![i] = "test"]
    /\ UNCHANGED <<status, work_len, apc, asignal>>
    /\ WorkerFrame

\* run: _do_work returns True
WorkerFinishesEarlier(i) ==
    /\ wpc[i] = "work"
    /\ wlog' = [wlog EXCEPT ![i] = Append(@, [elem |-> work_index[i], out |-> "True"])]
    /\ status' = [status EXCEPT ![i] = ABORT_FINISHED]
    /\ wpc' = [wpc EXCEPT ![i] = "exited"]
    /\ UNCHANGED <<work_len, work_index, apc, asignal, sdone>>
    /\ WorkerFrame

\* run: _do_work raises an Exception
WorkerRaises(i) ==
    /\ wpc[i] = "work"
    /\ wlog' = [wlog EXCEPT ![i] = Append(@, [elem |-> work_index[i], out |-> "raise"])]
    /\ status' = [status EXCEPT ![i] = ABORT_ERROR]
    /\ wpc' = [wpc EXCEPT ![i] = "exited"]
    /\ UNCHANGED <<work_len, work_index, apc, asignal, sdone>>
    /\ WorkerFrame

\* The thread of worker i
WorkerStep(i) ==
    \/ WorkerRun(i) \/ WorkerTest(i) \/ WorkerLen(i)
    \/ WorkerDoWork(i) \/ WorkerFinishesEarlier(i) \/ WorkerRaises(i)

\* abort(): if self._status == WorkerStatus.WORKING
AbortCall ==
    /\ apc = "idle"
    /\ spc = "idle"
    /\ wpc[0] # "new"
    /\ apc' = IF status[0] = WORKING THEN "set" ELSE "wait"
    /\ asignal' = [NoSignal EXCEPT !.saw = status[0]]
    /\ UNCHANGED <<status, work_len, work_index, wpc, wlog, sdone>>
    /\ WorkerFrame

\* abort(): self._status = WorkerStatus.ABORT_USER
AbortSet ==
    /\ apc = "set"
    /\ status' = [status EXCEPT ![0] = ABORT_USER]
    /\ apc' = "wait"
    /\ asignal' = [asignal EXCEPT !.wrote = TRUE, !.at = Len(wlog[0]), !.pc = wpc[0]]
    /\ UNCHANGED <<work_len, work_index, wpc, wlog, sdone>>
    /\ WorkerFrame

\* abort(): while self.is_alive() ends, abort returns
AbortReturn ==
    /\ apc = "wait"
    /\ ~IsAlive(0)
    /\ apc' = "returned"
    /\ UNCHANGED <<status, work_len, work_index, wpc, wlog, asignal, sdone>>
    /\ WorkerFrame

\* --------------------------------------------------------------- WorkerSession
\* What the steps of run leave alone outside the workers and the session
SessionFrame ==
    UNCHANGED <<apc, asignal, fileVars, storeVars, multiVars, isoVars, retryVars,
                strVars, recVars, setVars>>

\* work_dic[i]: the elements e of work with e % workers_num = i, by their
\* index in work
Share(i, n, num) == {e \in 0..(n - 1) : e % num = i}

\* The lists of zeros: no checkpoint saved
Zeros == {[k \in 1..n |-> 0] : n \in 0..MaxWorkers}

\* run: the two checks, the split of the work, the first pass of the loop
\* that creates the workers.  A session is run again, on the same work, with
\* the checkpoints the run before left on it.
SessionRun ==
    /\ spc \in {"idle", "returned"}
    /\ wpc[0] = "new" \/ spc = "returned"
    /\ Len(sruns) < MaxRuns
    /\ \E cps \in IF spc = "idle" THEN Zeros ELSE {workers_checkpoints} :
       \E n \in IF spc = "idle" THEN 0..MaxWork ELSE {work} :
          /\ workers_checkpoints' = cps
          /\ work' = n
          /\ sruns' = Append(sruns, cps)
          /\ workers_num' = Len(cps)
          /\ spc' = IF Len(cps) = 0 \/ n = 0 THEN "raised" ELSE "start"
    /\ sw' = 0
    /\ global_status' = NoStatus
    /\ sseen' = <<>>
    /\ status' = [i \in Workers |-> NOT_STARTED]
    /\ work_len' = [i \in Workers |-> 0]
    /\ work_index' = [i \in Workers |-> 0]
    /\ wstart' = [i \in Workers |-> 0]
    /\ wpc' = [i \in Workers |-> "new"]
    /\ wlog' = [i \in Workers |-> <<>>]
    /\ UNCHANGED sdone
    /\ SessionFrame

\* run: worker = worker_type(i); worker.prepare(work_dic[i],
\* self.workers_checkpoints[i]); worker.start().  work_dic has no key i when
\* no element fell to worker i (KeyError); prepare raises ValueError.
SessionStart ==
    /\ spc = "start"
    /\ IF /\ Share(sw, work, workers_num) # {}
          /\ PrepareOk(Cardinality(Share(sw, work, workers_num)),
                       workers_checkpoints[sw + 1], status[sw])
       THEN /\ work_len' = [work_len EXCEPT ![sw] = Cardinality(Share(sw, work, workers_num))]
            /\ work_index' = [work_index EXCEPT ![sw] = workers_checkpoints[sw + 1]]
            /\ wstart' = [wstart EXCEPT ![sw] = workers_checkpoints[sw + 1]]
            /\ wpc' = [wpc EXCEPT ![sw] = "started"]
            /\ sw' = IF sw + 1 = workers_num THEN 0 ELSE sw + 1
            /\ spc' = IF sw + 1 = workers_num THEN "compare" ELSE "start"
       ELSE /\ spc' = "raised"
            /\ UNCHANGED <<work_len, work_index, wstart, wpc, sw>>
    /\ UNCHANGED <<status, wlog, work, workers_checkpoints, workers_num, global_status,
                   sseen, sdone, sruns>>
    /\ SessionFrame

\* run: if global_status is None or w.status < global_status
SessionCompare ==
    /\ spc = "compare"
    /\ IF global_status = NoStatus \/ status[sw] < global_status
       THEN spc' = "assign" /\ UNCHANGED sseen
       ELSE spc' = "checkpoint" /\ sseen' = Append(sseen, status[sw])
    /\ UNCHANGED <<status, work_len, work_index, wstart, wpc, wlog, work,
                   workers_checkpoints, workers_num, sw, global_status, sdone, sruns>>
    /\ SessionFrame

\* run: global_status = w.status
SessionAssign ==
    /\ spc = "assign"
    /\ global_status' = status[sw]
    /\ sseen' = Append(sseen, status[sw])
    /\ spc' = "checkpoint"
    /\ UNCHANGED <<status, work_len, work_index, wstart, wpc, wlog, work,
                   workers_checkpoints, workers_num, sw, sdone, sruns>>
    /\ SessionFrame

\* run: self.workers_checkpoints[w.id] = w.work_index, and after the last
\* worker the test that ends the loop
SessionCheckpoint ==
    /\ spc = "checkpoint"
    /\ workers_checkpoints' = [workers_checkpoints EXCEPT ![sw + 1] = work_index[sw]]
    /\ IF sw + 1 < workers_num
       THEN /\ sw' = sw + 1
            /\ spc' = "compare"
            /\ UNCHANGED <<global_status, sseen>>
       ELSE /\ sw' = 0
            /\ IF global_status < 0 \/ global_status = FINISHED_ALL_WORK
               THEN /\ spc' = "signal"
                    /\ UNCHANGED <<global_status, sseen>>
               ELSE /\ spc' = "compare"
                    /\ global_status' = NoStatus
                    /\ sseen' = <<>>
    /\ UNCHANGED <<status, work_len, work_index, wstart, wpc, wlog, work, workers_num,
                   sdone, sruns>>
    /\ SessionFrame

\* run: except KeyboardInterrupt
SessionInterrupt ==
    /\ spc \in {"compare", "assign", "checkpoint"}
    /\ global_status' = ABORT_USER
    /\ spc' = "signal"
    /\ sw' = 0
    /\ sseen' = <<>>
    /\ UNCHANGED <<status, work_len, work_index, wstart, wpc, wlog, work,
                   workers_checkpoints, workers_num, sdone, sruns>>
    /\ SessionFrame

\* run: for w in workers: w._status = WorkerStatus.ABORT_USER
SessionSignal ==
    /\ spc = "signal"
    /\ status' = [status EXCEPT ![sw] = ABORT_USER]
    /\ sw' = IF sw + 1 = workers_num THEN 0 ELSE sw + 1
    /\ spc' = IF sw + 1 = workers_num THEN "join" ELSE "signal"
    /\ UNCHANGED <<work_len, work_index, wstart, wpc, wlog, work, workers_checkpoints,
                   workers_num, global_status, sseen, sdone, sruns>>
    /\ SessionFrame

\* run: for w in workers: w.join(), and the return
SessionJoin ==
    /\ spc = "join"
    /\ ~IsAlive(sw)
    /\ sw' = IF sw + 1 = workers_num THEN 0 ELSE sw + 1
    /\ spc' = IF sw + 1 = workers_num THEN "returned" ELSE "join"
    /\ UNCHANGED <<status, work_len, work_index, wstart, wpc, wlog, work,
                   workers_checkpoints, workers_num, global_status, sseen, sdone, sruns>>
    /\ SessionFrame

\* -------------------------------------------------------------------- settings
\* settings_file is a text of lines "key=value".  A Python value is its type
\* and the text str() gives for it.
SettingKeys == {<<"a">>, <<"b">>, <<"b", "a">>}
SettingTexts == {<<"1">>, <<"2">>}
SettingTypes == {"int", "str"}
NoneValue == [type |-> "NoneType", text |-> <<>>]

\* str.startswith(prefix)
StartsWith(line, prefix) ==
    Len(line) >= Len(prefix) /\ SubSeq(line, 1, Len(prefix)) = prefix

\* data.split('\n'): the pieces between the newlines, the last one included
RECURSIVE SplitLines(_, _)
SplitLines(data, line) ==
    IF data = <<>> THEN <<line>>
    ELSE IF Head(data) = NL THEN <<line>> \o SplitLines(Tail(data), <<>>)
    ELSE SplitLines(Tail(data), Append(line, Head(data)))

\* str.replace(old, new), old not empty: every occurrence, from the left
RECURSIVE str_replace(_, _, _)
str_replace(data, old, new) ==
    IF data = <<>> THEN <<>>
    ELSE IF StartsWith(data, old)
         THEN new \o str_replace(SubSeq(data, Len(old) + 1, Len(data)), old, new)
         ELSE <<Head(data)>> \o str_replace(Tail(data), old, new)

\* f'{key}='  and  f'{key}={value}'
KeyPrefix(key) == key \o <<"=">>
SettingLine(key, value) == key \o <<"=">> \o value

\* _read_setting(key): the value of the first line that starts with "key=",
\* or None
read_setting(data, key) ==
    LET lines == ReadLines(data, <<>>)
        hits == {n \in 1..Len(lines) : StartsWith(lines[n], KeyPrefix(key))}
        first == CHOOSE n \in hits : \A m \in hits : n <= m
    IN  IF hits = {} THEN NoneValue
        ELSE [type |-> "str",
              text |-> SubSeq(RStrip(lines[first]), Len(key) + 2, Len(RStrip(lines[first])))]

\* _write_setting(key, value): the text of the file after the call
write_setting(data, key, value) ==
    LET lines == SplitLines(data, <<>>)
        hits == {n \in 1..Len(lines) : StartsWith(lines[n], KeyPrefix(key))}
        first == CHOOSE n \in hits : \A m \in hits : n <= m
    IN  IF hits = {} THEN data \o SettingLine(key, value) \o <<NL>>
        ELSE str_replace(data, lines[first], SettingLine(key, value))

\* Setting.write(value): nothing is written when the type of value is not
\* value_type
SettingWriteOp(data, key, value_type, value) ==
    IF value.type # value_type THEN [ok |-> FALSE, data |-> data]
    ELSE [ok |-> TRUE, data |-> write_setting(data, key, value.text)]

\* Setting.read(): the value parsed as value_type, the default when the
\* setting is not set (and then the default is written) or cannot be parsed
SettingReadOp(data, key, value_type, default_value) ==
    LET value == read_setting(data, key)
    IN  IF value = NoneValue
        THEN [ret |-> default_value,
              data |-> IF default_value # NoneValue
                       THEN SettingWriteOp(data, key, value_type, default_value).data
                       ELSE data]
        ELSE IF value_type = "int" /\ (value.text = <<>> \/ \E n \in 1..Len(value.text) :
                                            value.text[n] \notin {"1", "2"})
             THEN [ret |-> default_value, data |-> data]
             ELSE [ret |-> [type |-> value_type, text |-> value.text], data |-> data]

\* The lines of the file that start with "key="
SettingLines(data, key) ==
    Cardinality({n \in 1..Len(ReadLines(data, <<>>)) :
                    StartsWith(ReadLines(data, <<>>)[n], KeyPrefix(key))})

SettingFrame ==
    UNCHANGED <<fileVars, storeVars, multiVars, isoVars, retryVars, strVars, recVars,
                workVars>>

\* Setting(key, value_type).write(value)
SettingWrite ==
    \E key \in SettingKeys, value_type, type \in SettingTypes, text \in SettingTexts :
        LET res == SettingWriteOp(config, key, value_type, [type |-> type, text |-> text])
        IN  /\ config' = res.data
            /\ clast' = [op |-> "write", key |-> key, type |-> type, value |-> text,
                         before |-> config, ok |-> res.ok]
            /\ SettingFrame

\* Setting(key, value_type, default_value).read()
SettingRead ==
    \E key \in SettingKeys, value_type \in SettingTypes :
    \E default_value \in {NoneValue} \cup {[type |-> value_type, text |-> <<"1">>]} :
        LET res == SettingReadOp(config, key, value_type, default_value)
        IN  /\ config' = res.data
            /\ clast' = [op |-> "read", key |-> key, type |-> res.ret.type,
                         value |-> res.ret.text, before |-> config, ok |-> TRUE]
            /\ SettingFrame

\* ------------------------------------------------------- the specifications
\* The instances alone: cooperating processes, no I/O error
Step(i) ==
    \/ ReadOp(i) \/ RSkip(i) \/ RCheck(i) \/ ROpen(i) \/ RStat(i)
    \/ MEnter(i) \/ MExit(i) \/ MRelease(i)
    \/ WriteCall(i) \/ WSkip(i) \/ WOpen(i) \/ WFlush(i) \/ WStat(i)
    \/ Add(i) \/ AddRaises(i) \/ Set(i) \/ Replace(i) \/ ReplaceRaises(i)
    \/ Pop(i) \/ PopRaises(i)

NextCoop == \E i \in Inst : Step(i)
SpecCoop == Init /\ [][NextCoop]_vars

\* The instances, with errors in _write
Next ==
    \/ \E i \in Inst : Step(i)
    \/ \E i \in Inst : WOpenFail(i)
    \/ \E i \in Inst : WSerFail(i)
Spec == Init /\ [][Next]_vars

\* One instance, with errors in _write and with a third party that does not
\* take the lock.  What other instances do to this one goes through the file,
\* and the third party does all of it and more.
NextExt ==
    \/ Step(1)
    \/ WOpenFail(1)
    \/ WSerFail(1)
    \/ ExtWrite
    \/ ExtDelete
SpecExt == Init /\ [][NextExt]_vars

\* The instances with errors in _write, the wait for the lock a state of its
\* own, and fairness.  The code of _read, _write and modify() runs on once it
\* was entered (an I/O error is never owed); the body of a scope at every
\* depth ends, as the callers of the store are taken to do; and acquire(), which
\* tries again every poll interval, gets a lock that is free again and again.
Running(i) ==
    \/ RSkip(i) \/ RCheck(i) \/ ROpen(i) \/ RStat(i)
    \/ WSkip(i) \/ WOpen(i) \/ WFlush(i) \/ WStat(i)
    \/ MRelease(i)

BodyEnds(i, d) ==
    /\ depth[i] = d
    /\ MExit(i) \/ AddRaises(i) \/ ReplaceRaises(i) \/ PopRaises(i)

NextLive ==
    \/ Next
    \/ \E i \in Inst : MCall(i)
    \/ \E i \in Inst : MAcquire(i)

Fairness ==
    \A i \in Inst :
        /\ WF_vars(Running(i))
        /\ \A d \in 1..MaxDepth : SF_vars(BodyEnds(i, d))
        /\ SF_vars(MAcquire(i))

SpecLive == Init /\ [][NextLive]_vars /\ Fairness

\* The unique-key store of one instance, one whole call after another
NextStore ==
    \/ UAdd \/ USet \/ UReplace \/ UPop
    \/ UGet \/ UContains \/ ULen
    \/ UReread \/ UFresh
SpecStore == Init /\ [][NextStore]_vars

\* The multi-key store of one instance, one whole call after another
NextMulti ==
    \/ MultiAdd \/ MultiReplace \/ MultiPopObj \/ MultiPopKey
    \/ MultiGet \/ MultiCount \/ MultiFresh
SpecMulti == Init /\ [][NextMulti]_vars

\* The caller and one store, the records as objects
NextIso ==
    \/ IOpen \/ INew \/ IMutate \/ IDrop
    \/ IGet \/ ISet \/ IAdd \/ IReplace \/ IPop \/ IPopObj
SpecIso == Init /\ [][NextIso]_vars

\* call_retriable_func, one call after another, without KeyboardInterrupt
NextRetry == CallRetriableFunc \/ FuncReturns \/ FuncRaises \/ GiveUp \/ Retry
SpecRetry == Init /\ [][NextRetry]_vars

\* The string store of one instance, one whole call after another
NextStr == StrAdd \/ StrRemove \/ StrReplace \/ StrClear \/ StrFresh \/ StrOpen
SpecStr == Init /\ [][NextStr]_vars

\* One Serializable: constructed or loaded, compared, updated, written
NextRec == RecNew \/ RecEq \/ RecUpdate \/ RecDump \/ RecLoad
SpecRec == Init /\ [][NextRec]_vars

\* One worker, its thread, and a thread that calls abort()
NextWorker == WorkerPrepare \/ WorkerStep(0) \/ AbortCall \/ AbortSet \/ AbortReturn
SpecWorker == Init /\ [][NextWorker]_vars

\* One session, run and run again, and the threads of its workers
NextSession ==
    \/ SessionRun \/ SessionStart
    \/ SessionCompare \/ SessionAssign \/ SessionCheckpoint \/ SessionInterrupt
    \/ SessionSignal \/ SessionJoin
    \/ \E i \in Workers : WorkerStep(i)
SpecSession == Init /\ [][NextSession]_vars

\* The settings file under reads and writes of the settings
NextSettings == SettingWrite \/ SettingRead
SpecSettings == Init /\ [][NextSettings]_vars

\* ------------------------------------------------------------- the properties
\* C1: a mutation completed through one instance is never lost when the other
\* instance then mutates a different key: what an instance that has mutated
\* some keys is about to write agrees with the file, which holds every
\* mutation completed so far, on every key it did not mutate.
C1_NoLostUpdate ==
    \A i \in Inst :
        (pc[i] = "w_open" /\ touched[i] # {}) =>
            \A k \in Keys \ touched[i] :
                AsMap(cache[i])[k] = AsMap(Deserialize(file.content).dic)[k]

\* C2: entering the outermost modify scope takes the lock and reconciles the
\* cache with the file before the body runs: when the _read() that modify()
\* calls returns into the body, the cache is what the file holds.
C2_EntryReconciles ==
    [][\A i \in Inst :
          (ret[i] = "m_entry" /\ pc'[i] = "body")
              => cache'[i] = Deserialize(file'.content).dic]_vars

\* C3: whenever a modify scope or a store operation ends, by return or by an
\* error, the instance holds no level of the file lock.
C3_LockReleasedOnExit ==
    [][\A i \in Inst :
          (pc[i] # "idle" /\ pc'[i] = "idle") => holds'[i] = 0]_vars

\* C4: while a modify scope is open the instance has not opened the file for
\* writing since the scope was entered, and when the outermost scope has
\* written, it has written once and the file is the text of the cache, which
\* holds every mutation of the scope.
C4_OneWritePerScope ==
    \A i \in Inst :
        /\ depth[i] > 0 => scopeWrites[i] = 0
        /\ pc[i] = "m_release" =>
               /\ scopeWrites[i] = 1
               /\ file.exists
               /\ file.content = Serialize(cache[i])

\* C4, its case: the outermost scope has just written two mutations at once
C4_Witness ==
    \E i \in Inst : pc[i] = "m_release" /\ Cardinality(touched[i]) = 2

\* C5: outside the critical section of a single read or write, an instance
\* holds the lock exactly when its modify depth is greater than zero.
C5_HeldIffInScope ==
    \A i \in Inst :
        pc[i] \in {"idle", "body"} => (holds[i] > 0 <=> depth[i] > 0)

\* C6: at most one instance at a time is inside a lock-guarded critical
\* section, so none parses the file while another rewrites it and no two
\* rewrite it at once.  An instance is inside one (a read-reconcile, a write,
\* a modify scope) whenever it is not idle.
C6_MutualExclusion ==
    \A i, j \in Inst :
        (i # j /\ pc[i] # "idle") => (pc[j] = "idle" /\ holds[j] = 0)

\* C6, its case: one instance is in the middle of rewriting the file, and the
\* other, whose snapshot is out of date, cannot get in
C6_Witness ==
    \E i, j \in Inst :
        /\ i # j
        /\ pc[i] = "w_flush"
        /\ ModifiedExternally(j)
        /\ ~CanAcquire(j)

\* C7: once the file was created, rewritten or deleted from outside the
\* instance, a read operation returns what the file holds: when a read of an
\* instance that has no mutation of its own pending returns, the cache it
\* answers from is the file's content.
C7_ReadReflectsFile ==
    [][\A i \in Inst :
          ( /\ pc[i] \in {"r_skip", "r_check", "r_stat"}
            /\ ret[i] \in {"idle", "body"}
            /\ pc'[i] = ret[i]
            /\ touched[i] = {} )
              => cache'[i] = Deserialize(file'.content).dic]_vars

\* C8: after an instance has read or written the file and while nobody else
\* changes it, modified_externally() is false, so that a read returns before
\* it parses; the parses never exceed the reads that found the file changed.
C8_NoReparse ==
    \A i \in Inst :
        /\ clean[i] = "yes" => ~ModifiedExternally(i)
        /\ unparsed[i] >= 0

\* C8, its case: a read is at its check, after a completed read of an
\* existing file that nobody has changed since
C8_Witness ==
    \E i \in Inst :
        pc[i] = "r_check" /\ clean[i] = "yes" /\ file.exists /\ snap[i] # NoSnap

\* C9: modified_externally() is true exactly when no snapshot exists and the
\* file exists, or a snapshot exists and the file does not, or both exist and
\* the modification time or the size differs from the snapshot.
C9_ModifiedExternallyCases ==
    \A i \in Inst :
        ModifiedExternally(i) <=>
            \/ snap[i][1] = 0 /\ file.exists
            \/ snap[i][1] # 0 /\ ~file.exists
            \/ /\ snap[i][1] # 0
               /\ file.exists
               /\ (file.mtime # snap[i][1] \/ TextLen(file.content) # snap[i][2])

\* C9, its case: the file has the size of the snapshot and a later
\* modification time
C9_Witness ==
    \E i \in Inst :
        /\ snap[i][1] # 0
        /\ file.exists
        /\ TextLen(file.content) = snap[i][2]
        /\ file.mtime # snap[i][1]

\* C10: a write has flushed its text before it takes the snapshot, and the
\* snapshot of a write that nobody interfered with is the metadata of the
\* file as the write left it, so that the instance sees no external change.
C10_SnapshotAfterFlush ==
    \A i \in Inst :
        /\ pc[i] = "w_stat" => wbuf[i] = <<>>
        /\ (pc[i] = "m_release" /\ clean[i] = "yes") =>
               /\ snap[i] = Meta(file)
               /\ file.content = Serialize(cache[i])

\* C10, its case: a write of a non-empty store has completed undisturbed
C10_Witness ==
    \E i \in Inst :
        pc[i] = "m_release" /\ clean[i] = "yes" /\ cache[i] # <<>>

C12_OneEntryPerKey ==
    /\ \A m, n \in 1..Len(udic) : m # n => udic[m][1] # udic[n][1]
    /\ ulast.op \in {"add", "set", "replace", "pop"} =>
           \A m, n \in 1..Len(udisk) : m # n => udisk[m][1] # udisk[n][1]
    /\ ulast.op = "read" =>
           ((\E m, n \in 1..Len(udisk) :
                 m # n /\ ~IsIgnored(udisk[m]) /\ udisk[m][1] = udisk[n][1])
              => ~ulast.ok)

\* C12, its case: the read of a file whose third line repeats the key of the
\* second was rejected
C12_Witness ==
    ulast.op = "read" /\ ~ulast.ok /\ Len(udisk) = 3 /\ Len(udic) = 2

\* C13: add(obj) raises whenever obj's key is stored, whatever obj's other
\* fields, and leaves the store as it was; otherwise it stores obj and get of
\* the key returns a record equal to obj.
C13_AddContract ==
    [][ulast'.op = "add" =>
          LET obj == ulast'.obj
          IN  IF HasKey(udic, KeyOf(obj))
              THEN ~ulast'.ok /\ udic' = udic
              ELSE /\ ulast'.ok
                   /\ GetOp(udic', KeyOf(obj), FALSE, NoObj) = [ok |-> TRUE, ret |-> obj]]_vars

\* C13, its case: add raised for a record whose key is stored with another
\* value of the second field
C13_Witness ==
    /\ ulast.op = "add"
    /\ ~ulast.ok
    /\ HasKey(udic, ulast.key)
    /\ Lookup(udic, ulast.key) # ulast.obj

\* C14: replace(old, new) fails and leaves the store as it was when old's key
\* is not stored, when the keys of old and new differ or when old is not equal
\* to the stored record; otherwise it succeeds and get of the key returns a
\* record equal to new.
C14_ReplaceContract ==
    [][ulast'.op = "replace" =>
          LET old == ulast'.old
              new == ulast'.obj
              refused == \/ ~HasKey(udic, KeyOf(old))
                         \/ KeyOf(old) # KeyOf(new)
                         \/ Lookup(udic, KeyOf(old)) # old
          IN  IF refused
              THEN ~ulast'.ok /\ udic' = udic
              ELSE /\ ulast'.ok
                   /\ GetOp(udic', KeyOf(old), FALSE, NoObj) = [ok |-> TRUE, ret |-> new]]_vars

\* C14, its case: replace failed because old has the stored key and is not
\* the stored record
C14_Witness ==
    /\ ulast.op = "replace"
    /\ ~ulast.ok
    /\ ulast.old.id = ulast.obj.id
    /\ HasKey(udic, ulast.key)
    /\ Lookup(udic, ulast.key) # ulast.old

\* C15: get, contains and len of the unique-key store agree with the abstract
\* map that set, add, replace and pop describe, and pop and get return what
\* the map holds or raise when it holds nothing.
C15_RefinesMap ==
    /\ \A k \in Keys :
           /\ ContainsOp(udic, k) <=> umap[k] # NoObj
           /\ GetOp(udic, k, FALSE, NoObj) = [ok |-> umap[k] # NoObj, ret |-> umap[k]]
           /\ GetOp(udic, k, TRUE, NoObj) = [ok |-> TRUE, ret |-> umap[k]]
    /\ LenOp(udic) = Cardinality({k \in Keys : umap[k] # NoObj})
    /\ ulast.op \in {"pop", "get", "get_default", "contains"} =>
           ulast.ok = ulast.expOk
    /\ (ulast.op \in {"pop", "get", "get_default"} /\ ulast.ok) =>
           ulast.ret = ulast.expRet

\* C15, its case: pop returned one of two stored records and the other stays
C15_Witness ==
    /\ ulast.op = "pop"
    /\ ulast.ok
    /\ ulast.ret = [id |-> 1, name |-> 1]
    /\ Len(udic) = 1

\* C20: a fresh instance opened on the file the unique-key store wrote holds
\* the same keys in the same order, each with a record equal to the stored
\* one; the empty store reads back as empty.
C20_RoundTrip ==
    (ulast.op = "fresh" /\ udisk = Serialize(udic)) =>
        (ufresh.ok /\ ufresh.dic = udic)

\* C20, its case: a fresh instance has read a file of two records, written in
\* the order the second key, the first key, the first with its second field
\* set
C20_Witness ==
    /\ ulast.op = "fresh"
    /\ udisk = Serialize(udic)
    /\ Len(udic) = 2
    /\ udic[1][1] = 2
    /\ udic[2][2].name = 1

\* C16: in the multi-key store no two records stored under one key are equal,
\* after any add, replace or pop, whether it succeeded or raised.
C16_NoEqualRecords ==
    \A n \in 1..Len(mdic) :
        \A a, b \in 1..Len(mdic[n][2]) :
            a # b => mdic[n][2][a] # mdic[n][2][b]

\* C17: in the multi-key store add(obj) raises exactly when a record equal to
\* obj is stored under obj's key, and then leaves the store as it was;
\* otherwise obj is appended after the records of its key and the other keys
\* keep their records.
C17_MultiAddContract ==
    [][mlast'.op = "add" =>
          LET obj == mlast'.obj
              key == KeyOf(obj)
          IN  IF InList(ListOf(mdic, key), obj)
              THEN ~mlast'.ok /\ mdic' = mdic
              ELSE /\ mlast'.ok
                   /\ ListOf(mdic', key) = Append(ListOf(mdic, key), obj)
                   /\ \A k \in Keys \ {key} : ListOf(mdic', k) = ListOf(mdic, k)]_vars

\* C17, its case: a record was accepted under a key that holds a record with
\* another second field, and stands after it
C17_Witness ==
    /\ mlast.op = "add"
    /\ mlast.ok
    /\ Len(ListOf(mdic, mlast.key)) = 2
    /\ ListOf(mdic, mlast.key)[2] = mlast.obj
    /\ ListOf(mdic, mlast.key)[1] # mlast.obj

\* C18: in the multi-key store pop(obj=r) removes one stored record equal to r
\* and nothing else: the count of r's key and the grand total go down by one,
\* every other record stays, and the grand total is the sum of the per-key
\* counts; when no stored record equals r, pop raises and removes nothing.
C18_PopOneRecord ==
    [][mlast'.op = "pop_obj" =>
          LET r == mlast'.obj
              key == KeyOf(r)
              list == ListOf(mdic, key)
              Sum[K \in SUBSET Keys] ==
                  IF K = {} THEN 0
                  ELSE LET k == CHOOSE k \in K : TRUE
                       IN  MultiCountOp(mdic', TRUE, k) + Sum[K \ {k}]
          IN  /\ MultiCountOp(mdic', FALSE, 0) = Sum[Keys]
              /\ IF InList(list, r)
                 THEN /\ mlast'.ok
                      /\ mlast'.ret = r
                      /\ MultiCountOp(mdic', TRUE, key) = MultiCountOp(mdic, TRUE, key) - 1
                      /\ MultiCountOp(mdic', FALSE, 0) = MultiCountOp(mdic, FALSE, 0) - 1
                      /\ \E n \in 1..Len(list) :
                             list[n] = r /\ ListOf(mdic', key) = DropAt(list, n)
                      /\ \A k \in Keys \ {key} : ListOf(mdic', k) = ListOf(mdic, k)
                 ELSE ~mlast'.ok /\ mdic' = mdic]_vars

\* C18, its case: one of two records of a key was popped while another key
\* holds a record
C18_Witness ==
    /\ mlast.op = "pop_obj"
    /\ mlast.ok
    /\ MultiCountOp(mdic, TRUE, mlast.key) = 1
    /\ MultiCountOp(mdic, FALSE, 0) = 2

\* C19: a second instance opened on the file the multi-key store wrote gets,
\* for every key, the records of the first instance, complete and in their
\* order: the file the store writes is a file the store reads back.
C19_MultiRoundTrip ==
    (mlast.op = "fresh" /\ mdisk = MultiSerialize(mdic)) =>
        /\ mfresh.ok
        /\ \A k \in Keys : MultiGetOp(mfresh.dic, k) = MultiGetOp(mdic, k)

\* C28: on read, blank lines and lines whose first character after the
\* whitespace is '#' give no entry; and after a write of the store its file
\* holds no blank line and no line that starts with '#', whatever values the
\* store holds.
C28_NoCommentWritten ==
    /\ slast.op \in {"fresh", "open"} =>
          \A v \in sfresh :
              \E n \in 1..Len(ReadLines(slast.text, <<>>)) :
                  /\ ~IsSkipped(ReadLines(slast.text, <<>>)[n])
                  /\ v = from_string(Strip(ReadLines(slast.text, <<>>)[n]))
    /\ slast.op \notin {"none", "fresh", "open"} =>
          \A n \in 1..Len(ReadLines(stext, <<>>)) :
              ~IsSkipped(ReadLines(stext, <<>>)[n])

\* C29: with max_retries = n >= 0 func is called at most n + 1 times; the call
\* returns the result of the first call of func that does not raise, and func
\* is not called again; it returns None once n + 1 calls have all raised; with
\* a negative max_retries it returns only when a call of func succeeded.
C29_AtMostNPlusOneCalls ==
    /\ (fpc # "idle" /\ max_retries >= 0) => calls <= max_retries + 1
    /\ fpc # "idle" => retries_count = (IF fpc = "call" THEN calls ELSE calls - 1)
    /\ result = "value" => fpc = "done"
    /\ (fpc = "done" /\ result = "None") =>
          (max_retries >= 0 /\ calls = max_retries + 1)
    /\ (fpc = "done" /\ max_retries < 0) => result = "value"
    /\ (fpc = "caught" /\ max_retries >= 0 /\ calls = max_retries + 1) =>
          ~ENABLED Retry

\* C29, its case: two retries were allowed, three calls raised and the call
\* returned None
C29_Witness ==
    /\ fpc = "done"
    /\ result = "None"
    /\ max_retries = 2
    /\ calls = 3

\* C30: the call sleeps once before each retry, first for
\* wait_between_retries and then each time for the last wait times
\* wait_multiplier, cut down to max_wait; and when max_wait is not negative
\* no sleep is longer than max_wait.
C30_SleepsBounded ==
    LET AtMost(w) == IF max_wait >= 0 /\ w > max_wait THEN max_wait ELSE w
    IN  /\ (fpc # "idle" /\ wait0 > 0 /\ max_wait # 0) =>
              /\ Len(sleeps) = retries_count
              /\ \A n \in 1..Len(sleeps) :
                    sleeps[n] = AtMost(IF n = 1 THEN wait0
                                       ELSE sleeps[n - 1] * wait_multiplier)
        /\ (fpc # "idle" /\ max_wait >= 0) =>
              \A n \in 1..Len(sleeps) : sleeps[n] <= max_wait

\* C21: the line written for a record omits every field whose value equals
\* its declared default, so a record with every field at its default is
\* written as the empty object; and a line that lacks a field is read back
\* with that field at its default.
C21_SparseEncoding ==
    LET cls == robj.cls
        HasDefault(f) == ~Schema(cls)[f].required
        Default(f) == New(cls, NoArgs).val[f]
    IN  /\ rlast.op = "dump" =>
              /\ \A f \in Fields(cls) :
                    (HasDefault(f) /\ robj.val[f] = Default(f)) => f \notin DOMAIN rlast.line
              /\ (\A f \in Fields(cls) : HasDefault(f) /\ robj.val[f] = Default(f))
                    => rlast.line = NoArgs
        /\ (rlast.op = "load" /\ rlast.ok) =>
              \A f \in Fields(cls) \ DOMAIN rlast.line : robj.val[f] = Default(f)

\* C22: two records are equal if and only if their field-value mappings,
\* defaults filled in, are equal: whatever their classes, whichever fields
\* were set explicitly, and whatever their fields excluded from
\* serialization hold; a record never equals a value that is not a record.
C22_EqualityByMapping ==
    rlast.op = "eq" =>
        LET a == robj
            b == rlast.other
            Shown(o) == {f \in DOMAIN o.val : ~Schema(o.cls)[f].exclude}
            Same(f) == IF Schema(a.cls)[f].type = "rec"
                       THEN a.val[f].val = b.val[f].val
                       ELSE a.val[f] = b.val[f]
        IN  rlast.ok <=> /\ b.cls \in Classes
                         /\ Shown(a) = Shown(b)
                         /\ \A f \in Shown(a) : Same(f)
\* A record equal to one that differs from it: in class, in an excluded
\* field or in what was set explicitly
C22_Witness == rlast.op = "eq" /\ rlast.ok /\ rlast.other # robj

C24_Merge ==
    (rlast.op = "update" /\ rlast.ok) =>
        LET self == rlast.self
            other == rlast.other
            Through(f) == f \in other.set /\ f \notin rlast.excluded
        IN  /\ (self.cls = "DictModel" /\ Through("data")) =>
                  robj.val.data =
                      {p \in self.val.data \cup other.val.data :
                          p \in other.val.data
                          \/ \A q \in other.val.data : q[1] # p[1]}
            /\ (self.cls = "SetModel" /\ Through("items")) =>
                  robj.val.items = self.val.items \cup other.val.items
            /\ (self.cls = "ParentModel" /\ Through("child")) =>
                  /\ robj.val.child.val.label =
                        IF "label" \in other.val.child.set
                        THEN other.val.child.val.label ELSE self.val.child.val.label
                  /\ robj.val.child.val.tags =
                        IF "tags" \in other.val.child.set
                        THEN self.val.child.val.tags \cup other.val.child.val.tags
                        ELSE self.val.child.val.tags
\* A dict merged with one that holds another value for one of its keys
C24_Witness ==
    /\ rlast.op = "update" /\ rlast.ok /\ rlast.self.cls = "DictModel"
    /\ "data" \in rlast.other.set /\ rlast.excluded = {}
    /\ \E p \in rlast.self.val.data : \E q \in rlast.other.val.data :
          p[1] = q[1] /\ p[2] # q[2]
    /\ \E p \in rlast.self.val.data : \A q \in rlast.other.val.data : p[1] # q[1]

\* C25: for a list field that update goes through, LIST_APPEND leaves the
\* elements of self followed by all the elements of other in order,
\* duplicates included; LIST_APPEND_IF_NOT_EXISTS leaves the elements of
\* self followed by exactly the elements of other that self did not hold,
\* each once, in the order of their first occurrence in other.
C25_ListAppend ==
    (rlast.op = "update" /\ rlast.ok) =>
        LET self == rlast.self
            other == rlast.other
            Through(f) == f \in other.set /\ f \notin rlast.excluded
            Range(l) == {l[n] : n \in 1..Len(l)}
            First(l, x) == CHOOSE n \in 1..Len(l) : l[n] = x /\ \A m \in 1..(n - 1) : l[m] # x
        IN  /\ (self.cls = "ListAppendModel" /\ Through("entries")) =>
                  robj.val.entries = self.val.entries \o other.val.entries
            /\ (self.cls = "ListAppendIfNotExistsModel" /\ Through("uniques")) =>
                  LET old == self.val.uniques
                      new == other.val.uniques
                      added == SubSeq(robj.val.uniques, Len(old) + 1, Len(robj.val.uniques))
                  IN  /\ Len(robj.val.uniques) >= Len(old)
                      /\ SubSeq(robj.val.uniques, 1, Len(old)) = old
                      /\ Range(added) = Range(new) \ Range(old)
                      /\ \A i, j \in 1..Len(added) :
                            i < j => (added[i] # added[j]
                                      /\ First(new, added[i]) < First(new, added[j]))
\* A list that lacks an element other holds twice
C25_Witness ==
    /\ rlast.op = "update" /\ rlast.ok /\ rlast.self.cls = "ListAppendIfNotExistsModel"
    /\ rlast.excluded = {} /\ "uniques" \in rlast.other.set
    /\ rlast.self.val.uniques = <<1>>
    /\ rlast.other.val.uniques = <<2, 2>>
    /\ robj.val.uniques = <<1, 2>>

\* C26: update(other) raises TypeError whenever other is not of exactly the
\* class of self, and whenever a field that is set on other and not in
\* excluded has the MERGE policy and values that are not both of the same
\* dict, set or record type, or has a list policy and values that are not
\* both lists: the field is never silently left alone.
C26_RaisesTypeError ==
    rlast.op = "update" =>
        LET self == rlast.self
            other == rlast.other
            Mode(f) == Schema(self.cls)[f].mode
            Mine(f) == TypeOf(self.cls, f, self.val[f])
            Theirs(f) == TypeOf(other.cls, f, other.val[f])
            Wrong(f) ==
                \/ /\ Mode(f) = "MERGE"
                   /\ ~(/\ Mine(f) \in {"dict", "set"} \cup Classes
                         /\ Theirs(f) = Mine(f))
                \/ /\ Mode(f) \in {"LIST_APPEND", "LIST_APPEND_IF_NOT_EXISTS"}
                   /\ ~(Mine(f) = "list" /\ Theirs(f) = "list")
        IN  (\/ other.cls # self.cls
             \/ \E f \in other.set \ rlast.excluded : Wrong(f)) => ~rlast.ok

\* C27: for a MERGE field of dict or set type, a.update(b) followed by
\* a.update(c) leaves the contents that one merge of a with the union of the
\* entries of b and c leaves, a key of both b and c with the value of c.  An
\* update brings the entries of its field when the field is set on other and
\* not in excluded, and none otherwise.
C27_MergeTwice ==
    (/\ Len(rapplied) = 2
     /\ robj.cls \in {"DictModel", "SetModel"}
     /\ \A n \in 1..2 : rapplied[n].other.cls = robj.cls) =>
        LET Through(n, f) ==
                f \in rapplied[n].other.set /\ f \notin rapplied[n].excluded
            Over(x, y) == y \cup {p \in x : \A q \in y : q[1] # p[1]}
            Data(n) == IF Through(n, "data") THEN rapplied[n].other.val.data ELSE {}
            Items(n) == IF Through(n, "items") THEN rapplied[n].other.val.items ELSE {}
        IN  /\ robj.cls = "DictModel" =>
                  robj.val.data = Over(rbase.val.data, Over(Data(1), Data(2)))
            /\ robj.cls = "SetModel" =>
                  robj.val.items = rbase.val.items \cup (Items(1) \cup Items(2))
\* Three dicts with a value each for one key, merged in turn
C27_Witness ==
    /\ Len(rapplied) = 2 /\ robj.cls = "DictModel"
    /\ rbase.val.data = {<<1, 1>>, <<2, 1>>}
    /\ rapplied[1].other.cls = "DictModel" /\ rapplied[1].excluded = {}
    /\ rapplied[1].other.val.data = {<<1, 2>>}
    /\ rapplied[2].other.cls = "DictModel" /\ rapplied[2].excluded = {}
    /\ rapplied[2].other.val.data = {<<1, 1>>}
    /\ robj.val.data = {<<1, 1>>, <<2, 1>>}

C32_AbortUser ==
    asignal.saw = WORKING =>
        /\ asignal.wrote => Len(wlog[0]) <= asignal.at + 1
        /\ (asignal.wrote /\ wpc[0] = "exited") => status[0] = ABORT_USER
        /\ apc = "returned" => wpc[0] = "exited"

\* C33: when WorkerSession.run returns, every worker thread has exited; the
\* status it returns is an ABORT_* status if a worker aborted or the user
\* interrupted, and otherwise FINISHED_ALL_WORK, which it returns only when
\* every worker has processed all of its elements; the status returned is
\* the lowest of the statuses the last pass over the workers found.
C33_SessionStatus ==
    spc = "returned" =>
        LET Ran == 0..(workers_num - 1)
            Aborted(i) == wlog[i] # <<>> /\ wlog[i][Len(wlog[i])].out # "done"
        IN  /\ \A i \in Ran : wpc[i] = "exited"
            /\ global_status < 0 \/ global_status = FINISHED_ALL_WORK
            /\ (\E i \in Ran : Aborted(i)) => global_status < 0
            /\ global_status = FINISHED_ALL_WORK =>
                  \A i \in Ran : work_index[i] = work_len[i] /\ ~Aborted(i)
            /\ sseen # <<>> =>
                  /\ \E n \in 1..Len(sseen) : sseen[n] = global_status
                  /\ \A n \in 1..Len(sseen) : global_status <= sseen[n]

\* C34: run on a non-empty work, with a non-empty list of zeros or with the
\* checkpoints an earlier run over the same work left on the session, does
\* not raise; it starts worker i at checkpoint i of its own share, every
\* element of the share before the checkpoint was processed by the earlier
\* run and is not given to _do_work again; every element of the work
\* belongs to the share of exactly one worker.
C34_Resume ==
    LET Ran == 0..(workers_num - 1)
    IN  /\ spc = "raised" => (work = 0 \/ workers_num = 0)
        /\ (spc \notin {"idle", "raised"}) =>
              /\ \A e \in 0..(work - 1) :
                    Cardinality({i \in Ran : e \in Share(i, work, workers_num)}) = 1
              /\ \A i \in Ran : wpc[i] # "new" =>
                    /\ wstart[i] = sruns[Len(sruns)][i + 1]
                    /\ \A j \in 0..(wstart[i] - 1) : j \in sdone[i]
                    /\ \A n \in 1..Len(wlog[i]) : wlog[i][n].elem >= wstart[i]

\* C35: a store operation that raises leaves the content of the file as it
\* was before the call, also when the cache of the instance was stale: when
\* the scope of an operation that raised without having changed the cache
\* reaches its write, the text it is about to write is the text of the file.
C35_RaiseLeavesFile ==
    \A i \in Inst :
        (pc[i] = "w_open" /\ bodyRaised[i] /\ touched[i] = {} /\ file.exists)
            => Serialize(cache[i]) = file.content

\* C36: no deadlock.  An instance that holds the lock is never kept waiting
\* by it, and an instance that waits for the lock in modify() gets it in the
\* end, short of the model's clock running out.
C36_NoSelfBlock ==
    \A i \in Inst : holds[i] > 0 => CanAcquire(i)

C36_WaiterAcquires ==
    \A i \in Inst :
        (pc[i] = "m_wait") ~> (holds[i] > 0 \/ clock = MaxClock)

\* C37: storing a record and loading it back preserves which fields are
\* explicitly set: the record read from the line written for a record has
\* the set fields of that record (of those that are serialized), so an
\* update from it leaves alone every field that was unset when the record
\* was stored.
C37_SetFieldsSurvive ==
    LET loaded == model_validate_json(robj.cls, rlast.line).obj
    IN  rlast.op = "dump" =>
            /\ loaded.set = {f \in robj.set : ~Schema(robj.cls)[f].exclude}
            /\ \A self \in Objects(robj.cls) : \A f \in Fields(robj.cls) \ robj.set :
                  UpdateOp(self, loaded, {}).self.val[f] = self.val[f]

\* C38: in the multi-key store, after any sequence of add, replace and pop,
\* every key that is present maps to at least one record: contains(key) is
\* true exactly when count(key=key) is at least 1 and exactly when get(key)
\* does not raise, and count(only_unique=True) is the number of keys with at
\* least one record.
C38_NoEmptyKey ==
    /\ \A n \in 1..Len(mdic) : mdic[n][2] # <<>>
    /\ \A key \in Keys :
          /\ MultiContainsOp(mdic, key) <=> MultiCountOp(mdic, TRUE, key) >= 1
          /\ MultiContainsOp(mdic, key) <=> MultiGetOp(mdic, key).ok
    /\ MultiCountUnique(mdic) = Cardinality({key \in Keys : ListOf(mdic, key) # <<>>})

\* C38, its case: pop(obj=r) removed the last record of its key while the
\* other key holds a record
C38_Witness ==
    /\ mlast.op = "pop_obj"
    /\ mlast.ok
    /\ ~MultiContainsOp(mdic, mlast.key)
    /\ MultiCountUnique(mdic) = 1

\* C39: update is all-or-nothing on error: when update(other) raises
\* TypeError, self is left as it was before the call, no field processed
\* before the offending one is modified.
C39_UpdateAllOrNothing ==
    (rlast.op = "update" /\ ~rlast.ok) => robj = rlast.self

\* C40: writing a setting changes only that setting: after Setting.write for
\* key k, new or already stored, the value read for every other key is the
\* same as before the write, the number of lines of each other key is
\* unchanged, and the file has exactly one line for k.
C40_WriteOnlyThatSetting ==
    (clast.op = "write" /\ clast.ok) =>
        /\ \A other \in SettingKeys \ {clast.key} :
              /\ read_setting(config, other) = read_setting(clast.before, other)
              /\ SettingLines(config, other) = SettingLines(clast.before, other)
        /\ SettingLines(config, clast.key) = 1

====
